---- MODULE Spec2Model ----
\* Two-tier caching and response classification of the Alpha Vantage gateway:
\* SimpleCache (in-memory, fixed TTL), SQLiteCache (persistent rows with
\* per-row TTL), AlphaVantageClient._make_request and the get_cached_* readers.
EXTENDS Integers, Sequences, FiniteSets, TLC

VARIABLES
    apiKey,     \* AlphaVantageClient.api_key
    now,        \* the clock, in seconds (time.monotonic() and int(time.time()))
    cache,      \* AlphaVantageClient._cache._store : key -> <<value, ts>>
    db,         \* table cache_entries : cache_key -> row
    task,       \* the _make_request coroutines, suspended at the await or idle
    last,       \* what the latest step did (observation only)
    hist,       \* the latest set, save and successful fetch (observation only)
    nfetch,     \* fetches started so far
    nrestarts   \* process restarts so far

vars == <<apiKey, now, cache, db, task, last, hist, nfetch, nrestarts>>

---------------------------------------------------------------------------
\* Bounds of the model.

MaxFetches == 2
MaxRestarts == 1

TaskIds == {"t1", "t2"}
ApiKeys == {"key1", "key2"}
Symbols == {"IBM"}
Keywords == {"ibm"}

\* The instants at which the clock is read: each TTL (120, 600, 86400) is met
\* exactly and passed by one second.
Times == {0, 120, 121, 600, 601, 86400, 86401}

---------------------------------------------------------------------------
\* Python values.

None == << >>
Some(x) == <<x>>

Range(s) == {s[i] : i \in DOMAIN s}

\* A dict as the sequence of its items in insertion order.
HasItem(d, name) == \E i \in DOMAIN d : d[i][1] = name

GetItem(d, name, default) ==
    IF HasItem(d, name)
    THEN d[CHOOSE i \in DOMAIN d : d[i][1] = name][2]
    ELSE default

\* d[name] = value : replaces in place, or appends a new item.
SetItem(d, name, value) ==
    IF HasItem(d, name)
    THEN [i \in DOMAIN d |-> IF d[i][1] = name THEN <<name, value>> ELSE d[i]]
    ELSE Append(d, <<name, value>>)

\* The parameter names of the requests, in the order sorted() puts them.
ParamNames == <<"apikey", "function", "keywords", "symbol">>

\* The items left in insertion order.
SortedItemsAsGiven(d) == d

\* sorted(d.items()): the items by ascending name (names are unique in a dict).
SortedItems(d) ==
    LET pick[i \in 0..Len(ParamNames)] ==
            IF i = 0 THEN << >>
            ELSE IF HasItem(d, ParamNames[i])
                 THEN Append(pick[i - 1],
                             <<ParamNames[i], GetItem(d, ParamNames[i], "")>>)
                 ELSE pick[i - 1]
    IN pick[Len(ParamNames)]

\* The dicts with the items of d, one for each insertion order.
Orderings(d) ==
    {[i \in DOMAIN d |-> d[f[i]]] : f \in Permutations(DOMAIN d)}

\* A finite map with a growing domain.
EmptyMap == [k \in {} |-> None]
Put(m, k, v) == [x \in (DOMAIN m) \cup {k} |-> IF x = k THEN v ELSE m[x]]
Remove(m, k) == [x \in (DOMAIN m) \ {k} |-> m[x]]

---------------------------------------------------------------------------
\* JSON values as response.json() decodes them. An object or an array is the
\* set of its <<name or index, value>> items; a string is the one item
\* <<"", text>>; a number or a bool is n.

Json(kind, items, n) == [kind |-> kind, items |-> items, n |-> n]
Obj(items) == Json("object", items, 0)
Arr(items) == Json("array", items, 0)
Str(text) == Json("string", {<<"", text>>}, 0)
Num(n) == Json("number", {}, n)
JsonNull == Json("null", {}, 0)
NoBody == Json("none", {}, 0)

\* name in data (line 338): key membership for a dict, element membership for
\* a list, substring for a str (the strings of the model contain a marker only
\* by being it); an int, a bool or None is not iterable.
Iterable(data) == data.kind \in {"object", "array", "string"}
Contains(data, name) ==
    CASE data.kind = "object" -> \E p \in data.items : p[1] = name
      [] data.kind = "array" -> \E p \in data.items : p[2] = name
      [] data.kind = "string" -> \E p \in data.items : p[2] = name
      [] OTHER -> FALSE

\* The exception built from the name of the marker, not from its text.
FieldName(data, name) == name

\* data[name] for a dict that has the key.
Field(data, name) == (CHOOSE p \in data.items : p[1] = name)[2]

\* The check of line 362 never taken.
FalsyNever(data) == FALSE

\* not data
Falsy(data) ==
    CASE data.kind \in {"object", "array"} -> data.items = {}
      [] data.kind = "string" -> data.items = {<<"", "">>}
      [] data.kind \in {"number", "bool"} -> data.n = 0
      [] OTHER -> TRUE

\* json.dumps / json.loads: the text is the kind, the items in one fixed order
\* and the number.
ItemSeq(S) ==
    CHOOSE s \in [1..Cardinality(S) -> S] : \A i, j \in 1..Cardinality(S) :
        i # j => s[i] # s[j]
JsonDumps(v) == [text |-> <<v.kind, ItemSeq(v.items), v.n>>]
JsonLoads(t) == Json(t.text[1], Range(t.text[2]), t.text[3])

---------------------------------------------------------------------------
\* The fetch methods: the params each builds and the ttl_seconds it passes.

CallKinds ==
    {"daily", "weekly", "monthly", "quote", "search", "gold", "silver",
     "overview"}

FunctionOf(kind) ==
    CASE kind = "daily" -> "TIME_SERIES_DAILY"
      [] kind = "weekly" -> "TIME_SERIES_WEEKLY"
      [] kind = "monthly" -> "TIME_SERIES_MONTHLY"
      [] kind = "quote" -> "GLOBAL_QUOTE"
      [] kind = "search" -> "SYMBOL_SEARCH"
      [] kind = "gold" -> "GOLD_SILVER_SPOT"
      [] kind = "silver" -> "GOLD_SILVER_SPOT"
      [] kind = "overview" -> "OVERVIEW"

\* The arguments a caller may pass to the method of a kind.
ArgsOf(kind) ==
    CASE kind = "search" -> Keywords
      [] kind = "gold" -> {"XAU"}
      [] kind = "silver" -> {"XAG"}
      [] OTHER -> Symbols

CallParams(kind, arg) ==
    << <<"function", FunctionOf(kind)>>,
       <<(IF kind = "search" THEN "keywords" ELSE "symbol"), arg>> >>

QuoteTtl == 600
DailyTtl == 600
OverviewTtl == 86400

\* TtlOf with the weekly series persisted like the daily one.
TtlOfWeeklyPersisted(kind) ==
    CASE kind = "quote" -> Some(QuoteTtl)
      [] kind \in {"daily", "weekly"} -> Some(DailyTtl)
      [] kind = "overview" -> Some(OverviewTtl)
      [] OTHER -> None

\* The ttl_seconds argument of the _make_request call: None when omitted.
TtlOf(kind) ==
    CASE kind = "quote" -> Some(QuoteTtl)
      [] kind = "daily" -> Some(DailyTtl)
      [] kind = "overview" -> Some(OverviewTtl)
      [] OTHER -> None

Requests == {[kind |-> k, arg |-> a] : k \in CallKinds, a \in Symbols \cup Keywords \cup {"XAU", "XAG"}}

ValidRequests == {r \in Requests : r.arg \in ArgsOf(r.kind)}

\* One call kind of each TTL policy: 600 s, 86400 s, none.
CoreKinds == {"quote", "overview", "search"}
CoreRequests == {r \in ValidRequests : r.kind \in CoreKinds}

\* A persisted and a volatile-only call kind.
ClassifyRequests == {r \in ValidRequests : r.kind \in {"quote", "search"}}

---------------------------------------------------------------------------
\* Cache keys.

\* safe_params with the apikey item left in.
SafeParamsWithKey(params) == params

\* _build_cache_key: f"{function}:{json.dumps(safe_params, sort_keys=True)}"
SafeParams(params) == SelectSeq(params, LAMBDA item : item[1] # "apikey")
BuildCacheKey(function, params) == <<function, SortedItems(SafeParams(params))>>

\* _make_request, lines 294-296: the params with the credential attached and
\* the key of the in-memory cache.
RequestParams(params, key) == SetItem(params, "apikey", key)
\* The in-memory key built without the symbol of the request.
MemoryCacheKeyNoSymbol(params) ==
    SortedItems(SelectSeq(params, LAMBDA item : item[1] # "symbol"))

MemoryCacheKey(params) == SortedItems(params)

---------------------------------------------------------------------------
\* SimpleCache.

VolatileTtl == 120

\* SimpleCache.get expiring an entry already at the TTL (>= for >).
SimpleCacheGetStrict(store, key, t) ==
    IF key \notin DOMAIN store THEN None
    ELSE IF t - store[key][2] >= VolatileTtl THEN None
    ELSE Some(store[key][1])

\* SimpleCache.get returning the entry whatever its age.
SimpleCacheGetNoExpiry(store, key, t) ==
    IF key \notin DOMAIN store THEN None
    ELSE Some(store[key][1])

\* SimpleCache.get: the value returned (None when missing or expired) ...
SimpleCacheGet(store, key, t) ==
    IF key \notin DOMAIN store THEN None
    ELSE IF t - store[key][2] > VolatileTtl THEN None
    ELSE Some(store[key][1])

\* SimpleCache.get without the pop of the expired entry.
SimpleCacheGetStoreKeep(store, key, t) == store

\* ... and the store it leaves: an expired entry is popped.
SimpleCacheGetStore(store, key, t) ==
    IF key \in DOMAIN store /\ t - store[key][2] > VolatileTtl
    THEN Remove(store, key)
    ELSE store

\* SimpleCache.set keeping the timestamp of an entry it replaces.
SimpleCacheSetKeepTime(store, key, value, t) ==
    IF key \in DOMAIN store THEN Put(store, key, <<value, store[key][2]>>)
    ELSE Put(store, key, <<value, t>>)

\* SimpleCache.set
SimpleCacheSet(store, key, value, t) == Put(store, key, <<value, t>>)

---------------------------------------------------------------------------
\* SQLiteCache.

DefaultTtl == 600

\* SQLiteCache.save writing the default TTL whatever ttl_seconds is.
SQLiteSaveDefaultTtl(rows, cache_key, payload, ttl_seconds, endpoint, t) ==
    Put(rows, cache_key,
        [endpoint |-> endpoint, payload |-> JsonDumps(payload),
         fetched_at |-> t, ttl_seconds |-> DefaultTtl])

\* SQLiteCache.save as INSERT OR IGNORE: an existing row is kept.
SQLiteSaveKeepFirst(rows, cache_key, payload, ttl_seconds, endpoint, t) ==
    IF cache_key \in DOMAIN rows THEN rows
    ELSE Put(rows, cache_key,
             [endpoint |-> endpoint, payload |-> JsonDumps(payload),
              fetched_at |-> t,
              ttl_seconds |-> IF ttl_seconds # None THEN ttl_seconds[1]
                              ELSE DefaultTtl])

\* SQLiteCache.save: INSERT OR REPLACE of the whole row.
SQLiteSave(rows, cache_key, payload, ttl_seconds, endpoint, t) ==
    LET ttl == IF ttl_seconds # None THEN ttl_seconds[1] ELSE DefaultTtl
    IN Put(rows, cache_key,
           [endpoint |-> endpoint, payload |-> JsonDumps(payload),
            fetched_at |-> t, ttl_seconds |-> ttl])

\* SQLiteCache.get calling a row stale already at its ttl_seconds (>= for >).
SQLiteGetStrict(rows, cache_key, allow_stale, t) ==
    IF cache_key \notin DOMAIN rows THEN None
    ELSE LET row == rows[cache_key]
             age == t - row.fetched_at
             is_stale == age >= row.ttl_seconds
         IN IF is_stale /\ ~allow_stale THEN None
            ELSE Some([payload |-> JsonLoads(row.payload),
                       fetched_at |-> row.fetched_at,
                       ttl_seconds |-> row.ttl_seconds,
                       stale |-> is_stale])

\* SQLiteCache.get measuring the age against the default TTL, not the row's.
SQLiteGetDefaultTtl(rows, cache_key, allow_stale, t) ==
    IF cache_key \notin DOMAIN rows THEN None
    ELSE LET row == rows[cache_key]
             age == t - row.fetched_at
             is_stale == age > DefaultTtl
         IN IF is_stale /\ ~allow_stale THEN None
            ELSE Some([payload |-> JsonLoads(row.payload),
                       fetched_at |-> row.fetched_at,
                       ttl_seconds |-> row.ttl_seconds,
                       stale |-> is_stale])

\* SQLiteCache.get: None, or the row with the stale flag computed at the read.
SQLiteGet(rows, cache_key, allow_stale, t) ==
    IF cache_key \notin DOMAIN rows THEN None
    ELSE LET row == rows[cache_key]
             age == t - row.fetched_at
             is_stale == age > row.ttl_seconds
         IN IF is_stale /\ ~allow_stale THEN None
            ELSE Some([payload |-> JsonLoads(row.payload),
                       fetched_at |-> row.fetched_at,
                       ttl_seconds |-> row.ttl_seconds,
                       stale |-> is_stale])

\* SQLiteCache.get deleting the row it finds stale.
SQLiteGetRowsPurge(rows, cache_key, allow_stale, t) ==
    IF cache_key \in DOMAIN rows
       /\ t - rows[cache_key].fetched_at > rows[cache_key].ttl_seconds
    THEN Remove(rows, cache_key)
    ELSE rows

\* SQLiteCache.get: the table it leaves. The one statement is a SELECT.
SQLiteGetRows(rows, cache_key, allow_stale, t) == rows

\* _get_cached returning stale rows too (allow_stale not passed on).
GetCachedAllowStale(rows, function, params, allow_stale, t) ==
    SQLiteGet(rows, BuildCacheKey(function, params), TRUE, t)

\* AlphaVantageClient._get_cached
GetCached(rows, function, params, allow_stale, t) ==
    SQLiteGet(rows, BuildCacheKey(function, params), allow_stale, t)

---------------------------------------------------------------------------
\* What the upstream call can come back with: a transport failure
\* (httpx.RequestError) or a response with a status and a body.

Outcome(transport, detail, status, decodable, body) ==
    [transport |-> transport, detail |-> detail, status |-> status,
     decodable |-> decodable, body |-> body]

NoOutcome == Outcome(FALSE, "", 0, FALSE, NoBody)

QuoteBodyA == Obj({<<"Global Quote", "price 1">>})
QuoteBodyB == Obj({<<"Global Quote", "price 2">>})
NoteBody == Obj({<<"Note", "Too many requests.">>})
ErrorBody == Obj({<<"Error Message", "Invalid API call.">>})
InfoBody == Obj({<<"Information", "Premium endpoint.">>})

ObjectBodies ==
    {QuoteBodyA, QuoteBodyB, NoteBody, ErrorBody, InfoBody,
     Obj({<<"Note", "Too many requests.">>, <<"Error Message", "Invalid API call.">>}),
     Obj({<<"Error Message", "Invalid API call.">>, <<"Information", "Premium endpoint.">>}),
     Obj({<<"Note", "Too many requests.">>, <<"Information", "Premium endpoint.">>}),
     Obj({<<"Note", "Too many requests.">>, <<"Error Message", "Invalid API call.">>,
          <<"Information", "Premium endpoint.">>}),
     Obj({<<"Note", "Slow down.">>, <<"Global Quote", "price 1">>}),
     Obj({})}

OtherBodies ==
    {Arr({}), Arr({<<"0", "x">>}), Arr({<<"0", "Note">>}),
     Str(""), Str("abc"), Str("Error Message"),
     Num(0), Num(5), Json("bool", {}, 0), Json("bool", {}, 1), JsonNull}

Bodies == ObjectBodies \cup OtherBodies

Statuses == {200, 201, 301, 400, 401, 403, 404, 429, 500, 502, 503, 504}

\* raise_for_status raising for the 4xx and 5xx statuses only.
IsSuccessBelow400(status) == status < 400

\* httpx.Response.is_success, which raise_for_status tests.
IsSuccess(status) == status >= 200 /\ status <= 299

\* The outcomes the specification of the whole client draws from: two
\* successes and one failure of each origin (transport, status, each marker,
\* empty body).
CoreOutcomes ==
    {Outcome(TRUE, "timed out", 0, FALSE, NoBody),
     Outcome(FALSE, "", 503, TRUE, QuoteBodyA),
     Outcome(FALSE, "", 401, TRUE, QuoteBodyA),
     Outcome(FALSE, "", 200, TRUE, QuoteBodyA),
     Outcome(FALSE, "", 200, TRUE, QuoteBodyB),
     Outcome(FALSE, "", 200, TRUE, NoteBody),
     Outcome(FALSE, "", 200, TRUE, ErrorBody),
     Outcome(FALSE, "", 200, TRUE, InfoBody),
     Outcome(FALSE, "", 200, TRUE, Obj({}))}

\* Two successes and a failure.
KindOutcomes ==
    {Outcome(FALSE, "", 200, TRUE, QuoteBodyA),
     Outcome(FALSE, "", 200, TRUE, QuoteBodyB),
     Outcome(FALSE, "", 200, TRUE, NoteBody)}

Outcomes ==
    {Outcome(TRUE, "timed out", 0, FALSE, NoBody)}
    \cup {Outcome(FALSE, "", 200, TRUE, b) : b \in Bodies}
    \cup {Outcome(FALSE, "", 200, FALSE, NoBody)}
    \cup {Outcome(FALSE, "", st, TRUE, b) :
            st \in Statuses \ {200}, b \in {QuoteBodyA, NoteBody}}

---------------------------------------------------------------------------
\* The result of a call: the payload returned or the exception raised.

Message(prefix, text, code) == [prefix |-> prefix, text |-> text, code |-> code]
NoMessage == Message("", "", 0)

Result(kind, payload, msg) == [kind |-> kind, payload |-> payload, msg |-> msg]
Ok(payload) == Result("ok", payload, NoMessage)
Raise(kind, msg) == Result(kind, NoBody, msg)
NoResult == Result("none", NoBody, NoMessage)

\* The exception classes of the service (APIError and its subclasses).
TypedFailures ==
    {"RateLimitError", "InvalidSymbolError", "AuthError", "UpstreamError",
     "APIError"}

\* The checks of the body with "Error Message" tested before "Note".
ClassifyBodyErrorFirst(data) ==
    IF ~Iterable(data) THEN Raise("TypeError", NoMessage)
    ELSE IF Contains(data, "Error Message")
    THEN IF data.kind = "object"
         THEN Raise("InvalidSymbolError",
                    Message("", Field(data, "Error Message"), 0))
         ELSE Raise("TypeError", NoMessage)
    ELSE IF Contains(data, "Note")
    THEN IF data.kind = "object"
         THEN Raise("RateLimitError", Message("", Field(data, "Note"), 0))
         ELSE Raise("TypeError", NoMessage)
    ELSE IF Contains(data, "Information")
    THEN IF data.kind = "object"
         THEN Raise("APIError", Message("", Field(data, "Information"), 0))
         ELSE Raise("TypeError", NoMessage)
    ELSE IF Falsy(data)
    THEN Raise("APIError", Message("Empty response from Alpha Vantage.", "", 0))
    ELSE Ok(data)

\* _make_request, lines 336-364: the checks on the decoded body, in the
\* order of the code.
ClassifyBody(data) ==
    IF ~Iterable(data) THEN Raise("TypeError", NoMessage)
    ELSE IF Contains(data, "Note")
    THEN IF data.kind = "object"
         THEN Raise("RateLimitError", Message("", Field(data, "Note"), 0))
         ELSE Raise("TypeError", NoMessage)
    ELSE IF Contains(data, "Error Message")
    THEN IF data.kind = "object"
         THEN Raise("InvalidSymbolError",
                    Message("", Field(data, "Error Message"), 0))
         ELSE Raise("TypeError", NoMessage)
    ELSE IF Contains(data, "Information")
    THEN IF data.kind = "object"
         THEN Raise("APIError", Message("", Field(data, "Information"), 0))
         ELSE Raise("TypeError", NoMessage)
    ELSE IF Falsy(data)
    THEN Raise("APIError", Message("Empty response from Alpha Vantage.", "", 0))
    ELSE Ok(data)

\* _make_request, lines 305-364: from the upstream outcome to the data that
\* goes on to the caches, or to the exception raised.
Classify(o) ==
    IF o.transport
    THEN Raise("APIError", Message("Network error: ", o.detail, 0))
    ELSE IF ~IsSuccess(o.status)
    THEN IF o.status \in {401, 403}
         THEN Raise("AuthError",
                    Message("Authentication failed with Alpha Vantage.", "", 0))
         ELSE IF o.status \in {429, 500, 502, 503, 504}
         THEN Raise("UpstreamError",
                    Message("Upstream error from Alpha Vantage (status ", ").",
                            o.status))
         ELSE Raise("APIError",
                    Message("API request failed with status code ", "", o.status))
    ELSE IF ~o.decodable
    THEN Raise("JSONDecodeError", NoMessage)
    ELSE ClassifyBody(o.body)

---------------------------------------------------------------------------
\* The HTTP layer (app/routes/alphavantage.py).

\* Text as the sequence of its code points: the order of Python str values.
Dash == 45
DigitChars == 48 .. 57
AlnumChars == DigitChars \cup (65 .. 90) \cup (97 .. 122)

RECURSIVE StrLess(_, _)
StrLess(a, b) ==
    IF a = << >> THEN b # << >>
    ELSE IF b = << >> THEN FALSE
    ELSE IF Head(a) # Head(b) THEN Head(a) < Head(b)
    ELSE StrLess(Tail(a), Tail(b))

\* The symbols and keywords a request path may carry, as text.
Chars(s) ==
    CASE s = "IBM" -> <<73, 66, 77>>
      [] s = "ibm" -> <<105, 98, 109>>
      [] s = "BRK-B" -> <<66, 82, 75, 45, 66>>
      [] s = "" -> << >>
      [] s = "-" -> <<45>>
      [] s = "IBM!" -> <<73, 66, 77, 33>>
      [] s = "ABCDEFGHIJK" -> <<65, 66, 67, 68, 69, 70, 71, 72, 73, 74, 75>>
      [] s = "long keywords" -> [i \in 1 .. 51 |-> 97]

PathInputs == {"IBM", "ibm", "BRK-B", "", "-", "IBM!", "ABCDEFGHIJK", "long keywords"}

\* str.replace("-", "")
RECURSIVE WithoutDash(_)
WithoutDash(text) ==
    IF text = << >> THEN << >>
    ELSE IF Head(text) = Dash THEN WithoutDash(Tail(text))
    ELSE <<Head(text)>> \o WithoutDash(Tail(text))

\* str.isalnum() on ASCII text
IsAlnum(text) == text # << >> /\ \A i \in DOMAIN text : text[i] \in AlnumChars

\* str.upper() on ASCII text
Upper(text) ==
    [i \in DOMAIN text |-> IF text[i] \in 97 .. 122 THEN text[i] - 32 ELSE text[i]]

\* An HTTP answer: the status, the detail of an error, the content of a 200.
Http(status, detail, content) ==
    [status |-> status, detail |-> detail, content |-> content]

\* A detail given as a literal.
Detail(text) == Message("", text, 0)

\* The JSON object of a 200: the payload itself for a fetch route; symbol,
\* days and data (the items in order) for a window; symbol, the payload
\* (under "data"), cached_at, ttl_seconds and stale for a cached view.
Content(symbol, days, data, payload, cached_at, ttl_seconds, stale) ==
    [symbol |-> symbol, days |-> days, data |-> data, payload |-> payload,
     cached_at |-> cached_at, ttl_seconds |-> ttl_seconds, stale |-> stale]
NoContent == Content(<< >>, 0, << >>, NoBody, 0, 0, FALSE)

HTTPException(status_code, detail) ==
    Raise("HTTPException", Message("", detail, status_code))

\* _validate_symbol / _validate_keywords: None, or the exception raised.
ValidateSymbol(symbol) ==
    IF Chars(symbol) = << >> \/ Len(Chars(symbol)) > 10
       \/ ~IsAlnum(WithoutDash(Chars(symbol)))
    THEN Some(HTTPException(400, "Invalid symbol format."))
    ELSE None

ValidateKeywords(keywords) ==
    IF Chars(keywords) = << >> \/ Len(Chars(keywords)) > 50
    THEN Some(HTTPException(400, "Invalid keywords."))
    ELSE None

\* isinstance(error, cls) for the exception classes of the service.
IsInstance(error, cls) ==
    \/ error.kind = cls
    \/ cls = "APIError" /\ error.kind \in TypedFailures

\* _handle_error with the base class APIError tested before its subclasses.
HandleErrorBaseFirst(error) ==
    IF IsInstance(error, "HTTPException")
    THEN Http(error.msg.code, Detail(error.msg.text), NoContent)
    ELSE IF IsInstance(error, "APIError") THEN Http(500, error.msg, NoContent)
    ELSE IF IsInstance(error, "InvalidSymbolError") THEN Http(404, error.msg, NoContent)
    ELSE IF IsInstance(error, "RateLimitError") THEN Http(429, error.msg, NoContent)
    ELSE IF IsInstance(error, "AuthError") THEN Http(401, error.msg, NoContent)
    ELSE IF IsInstance(error, "UpstreamError") THEN Http(503, error.msg, NoContent)
    ELSE Http(500, Detail("Unexpected server error"), NoContent)

\* _handle_error: the HTTPException it raises, as the answer FastAPI sends.
\* The detail of a service error is str(error), its message.
HandleError(error) ==
    IF IsInstance(error, "HTTPException")
    THEN Http(error.msg.code, Detail(error.msg.text), NoContent)
    ELSE IF IsInstance(error, "InvalidSymbolError") THEN Http(404, error.msg, NoContent)
    ELSE IF IsInstance(error, "RateLimitError") THEN Http(429, error.msg, NoContent)
    ELSE IF IsInstance(error, "AuthError") THEN Http(401, error.msg, NoContent)
    ELSE IF IsInstance(error, "UpstreamError") THEN Http(503, error.msg, NoContent)
    ELSE IF IsInstance(error, "APIError") THEN Http(500, error.msg, NoContent)
    ELSE Http(500, Detail("Unexpected server error"), NoContent)

\* The daily series of a payload is an object whose items pair a date text
\* with the data point of that day.
SeriesField == "Time Series (Daily)"

\* _extract_daily_series: the series, or the exception raised. A payload
\* that is no dict has no get().
ExtractDailySeries(payload) ==
    IF payload.kind # "object" THEN Raise("AttributeError", NoMessage)
    ELSE IF ~(\E p \in payload.items : p[1] = SeriesField)
    THEN HTTPException(502, "Upstream daily series data missing.")
    ELSE LET series == Field(payload, SeriesField)
         IN IF series.kind # "object" \/ series.items = {}
            THEN HTTPException(502, "Upstream daily series data missing.")
            ELSE Ok(series)

\* sorted(keys): insertion of each key into the ascending list.
RECURSIVE InsertSorted(_, _)
InsertSorted(sorted, key) ==
    IF sorted = << >> THEN <<key>>
    ELSE IF StrLess(key, Head(sorted)) THEN <<key>> \o sorted
    ELSE <<Head(sorted)>> \o InsertSorted(Tail(sorted), key)

RECURSIVE SortedKeys(_)
SortedKeys(keys) ==
    IF keys = {} THEN << >>
    ELSE LET key == CHOOSE k \in keys : TRUE
         IN InsertSorted(SortedKeys(keys \ {key}), key)

Reversed(s) == [i \in DOMAIN s |-> s[Len(s) + 1 - i]]

\* _filter_last_days with the dates taken from the oldest end.
FilterLastDaysOldest(series, days) ==
    LET dates == SortedKeys({p[1] : p \in series.items})
        recent_dates == SubSeq(dates, 1, IF Len(dates) < days THEN Len(dates) ELSE days)
    IN [i \in DOMAIN recent_dates |->
          <<recent_dates[i], Field(series, recent_dates[i])>>]

\* _filter_last_days: the dict it builds, as the sequence of its items in
\* insertion order.
FilterLastDays(series, days) ==
    LET dates == Reversed(SortedKeys({p[1] : p \in series.items}))
        recent_dates == SubSeq(dates, 1, IF Len(dates) < days THEN Len(dates) ELSE days)
    IN [i \in DOMAIN recent_dates |->
          <<recent_dates[i], Field(series, recent_dates[i])>>]

\* The routes that end in a call of a kind: the fetch route of the kind,
\* the three windows over the daily series, the cached views.
WindowRoutes == {"last-7", "last-15", "last-30"}

DaysOf(route) ==
    CASE route = "last-7" -> 7
      [] route = "last-15" -> 15
      [] route = "last-30" -> 30

RoutesOf(op, kind) ==
    IF op = "CachedRead" THEN {"cache"}
    ELSE IF kind = "daily" THEN {"fetch"} \cup WindowRoutes
    ELSE {"fetch"}

\* The answer of a route whose validation passed, from the result r of its
\* client call.
RouteAnswer(route, symbol, r, entry) ==
    IF r.kind = "absent"
    THEN HandleError(HTTPException(404, "No cached data found."))
    ELSE IF r.kind # "ok" THEN HandleError(r)
    ELSE IF route = "cache"
    THEN Http(200, NoMessage,
              Content(Upper(Chars(symbol)), 0, << >>, r.payload,
                      entry[1].fetched_at, entry[1].ttl_seconds,
                      entry[1].stale))
    ELSE IF route \in WindowRoutes
    THEN LET series == ExtractDailySeries(r.payload)
         IN IF series.kind # "ok" THEN HandleError(series)
            ELSE Http(200, NoMessage,
                      Content(Upper(Chars(symbol)), DaysOf(route),
                              FilterLastDays(series.payload, DaysOf(route)),
                              NoBody, 0, 0, FALSE))
    ELSE Http(200, NoMessage, Content(<< >>, 0, << >>, r.payload, 0, 0, FALSE))

\* The step with the answers of the routes that end in it.
WithAnswers(step) ==
    IF ~step.done THEN step
    ELSE [step EXCEPT !.http =
            [route \in RoutesOf(step.op, step.kind) |->
               RouteAnswer(route, step.arg, step.result, step.entry)]]

---------------------------------------------------------------------------
\* The state.

\* No call in progress. pending: the INSERT of a save that is not committed.
IdleTask ==
    [pc |-> "idle", kind |-> "", arg |-> "", params |-> << >>,
     function |-> "", cache_key |-> << >>, ttl_seconds |-> None,
     pending |-> None]

\* The record of a step: the operation, what it touched and how it ended.
\*   source  where a finished fetch took its payload from
\*   done    the call returned or raised in this step
\*   params  the params the caller passed
\*   value, ttl_seconds, endpoint  the arguments of a set or a save
\*   net     the step issued the upstream GET
\*   fault   a SQLite operation of the step raised
\*   replaced  the in-memory entry the response of a fetch found under its key
\*   outParams  the params of that GET
\*   http    route -> the HTTP answer of the route that made the call
\*   replacedRow  the row the save of a fetch found under its key
NoStep ==
    [op |-> "Init", t |-> "", kind |-> "", arg |-> "", allow_stale |-> FALSE,
     cache_key |-> << >>, db_key |-> << >>, source |-> "none", done |-> FALSE,
     result |-> NoResult, entry |-> None, outcome |-> NoOutcome,
     params |-> << >>, value |-> NoBody, ttl_seconds |-> None, endpoint |-> "",
     net |-> FALSE, outParams |-> << >>, fault |-> FALSE, replaced |-> None,
     cacheGet |-> FALSE, cacheSet |-> FALSE, dbGet |-> FALSE, dbSave |-> FALSE,
     http |-> << >>, replacedRow |-> None]

\* Nothing was set, saved or fetched yet.
\*   sets     in-memory key -> the value and time of the latest
\*            SimpleCache.set, and the time of the first
\*   saves    row key -> the arguments and time of the latest SQLiteCache.save
\*   fetched  <<call kind, argument>> -> the body of the latest fetch that
\*            completed a successful upstream call
NoHistory == [sets |-> EmptyMap, saves |-> EmptyMap, fetched |-> EmptyMap]

Init ==
    /\ apiKey = "key1"
    /\ now = 0
    /\ cache = EmptyMap
    /\ db = EmptyMap
    /\ task = [t \in TaskIds |-> IdleTask]
    /\ last = NoStep
    /\ hist = NoHistory
    /\ nfetch = 0
    /\ nrestarts = 0

---------------------------------------------------------------------------
\* One coroutine at a time: a new fetch has to wait for the running one.
FreeSlotSingle == "t1"

\* The slot a new coroutine takes: the coroutines are interchangeable, so it
\* is the first idle one.
FreeSlot ==
    IF task["t1"].pc = "idle" THEN "t1" ELSE "t2"

\* _make_request up to the await of client.get (lines 294-312): the two cache
\* lookups, then the upstream GET goes out. dbFails: the SQLite read raises.
\* callerParams: the params dict as the fetch method built it.
MakeRequestStart(t, kind, arg, callerParams, dbFails) ==
    /\ task[t].pc = "idle"
    /\ t = FreeSlot
    /\ nfetch < MaxFetches
    /\ LET params == RequestParams(callerParams, apiKey)
           function == GetItem(params, "function", "UNKNOWN")
           cache_key == MemoryCacheKey(params)
           cached == SimpleCacheGet(cache, cache_key, now)
           row == GetCached(db, function, params, FALSE, now)
           step == [NoStep EXCEPT !.op = "FetchStart", !.t = t,
                                  !.kind = kind, !.arg = arg,
                                  !.params = callerParams,
                                  !.cache_key = cache_key, !.cacheGet = TRUE]
           dbStep == [step EXCEPT !.dbGet = TRUE,
                                  !.db_key = BuildCacheKey(function, params)]
       IN /\ cache' = SimpleCacheGetStore(cache, cache_key, now)
          /\ db' = IF cached # None \/ dbFails THEN db
                   ELSE SQLiteGetRows(db, BuildCacheKey(function, params),
                                      FALSE, now)
          /\ IF cached # None
             THEN /\ ~dbFails
                  /\ task' = task
                  /\ last' = WithAnswers([step EXCEPT
                                !.done = TRUE, !.source = "volatile",
                                !.result = Ok(cached[1])])
             ELSE IF dbFails
             THEN /\ task' = task
                  /\ last' = WithAnswers([dbStep EXCEPT
                                !.done = TRUE, !.fault = TRUE,
                                !.result = Raise("sqlite3.Error", NoMessage)])
             ELSE IF row # None
             THEN /\ task' = task
                  /\ last' = WithAnswers([dbStep EXCEPT
                                !.done = TRUE, !.source = "persistent",
                                !.result = Ok(row[1].payload)])
             ELSE /\ task' = [task EXCEPT ![t] =
                                [pc |-> "network", kind |-> kind,
                                 arg |-> arg, params |-> params,
                                 function |-> function, cache_key |-> cache_key,
                                 ttl_seconds |-> TtlOf(kind),
                                 pending |-> None]]
                  /\ last' = [dbStep EXCEPT !.net = TRUE, !.outParams = params]
    /\ nfetch' = nfetch + 1
    /\ UNCHANGED <<apiKey, now, hist, nrestarts>>

\* A fetch method called with req.arg: it builds its params and awaits
\* _make_request.
FetchStart(t, req, dbFails) ==
    MakeRequestStart(t, req.kind, req.arg, CallParams(req.kind, req.arg), dbFails)

\* The cache set moved before the checks of the body: it runs for every
\* decoded response.
CacheAfterResponseEarly(store, cache_key, r, t) ==
    Put(store, cache_key, <<r.payload, t>>)

\* The cache set skipped when the key already has an entry.
CacheAfterResponseKeepFirst(store, cache_key, r, t) ==
    IF r.kind = "ok" /\ cache_key \notin DOMAIN store
    THEN SimpleCacheSet(store, cache_key, r.payload, t)
    ELSE store

\* _make_request, line 366: reached only when nothing was raised.
CacheAfterResponse(store, cache_key, r, t) ==
    IF r.kind = "ok" THEN SimpleCacheSet(store, cache_key, r.payload, t)
    ELSE store

\* The save skipped while the row of the key is still fresh.
RowsAfterResponseFreshKept(rows, db_cache_key, r, ttl_seconds, function, t) ==
    IF r.kind = "ok" /\ ttl_seconds # None
       /\ ~(/\ db_cache_key \in DOMAIN rows
            /\ t - rows[db_cache_key].fetched_at <= rows[db_cache_key].ttl_seconds)
    THEN SQLiteSave(rows, db_cache_key, r.payload, ttl_seconds, function, t)
    ELSE rows

\* _make_request, lines 367-374: the save, only with a ttl_seconds.
RowsAfterResponse(rows, db_cache_key, r, ttl_seconds, function, t) ==
    IF r.kind = "ok" /\ ttl_seconds # None
    THEN SQLiteSave(rows, db_cache_key, r.payload, ttl_seconds, function, t)
    ELSE rows

\* The history of the sets after set(key, value) at time t: the value and
\* time of the latest set, and the time of the first.
HistoryAfterSet(sets, key, value, t) ==
    Put(sets, key,
        [value |-> value, at |-> t,
         first |-> IF key \in DOMAIN sets THEN sets[key].first ELSE t])

\* What the response adds to the history: the set of line 366, the save of
\* lines 367-374 when it ran, the body of the successful upstream call.
HistoryAfterResponse(h, tk, db_cache_key, r, saved, t) ==
    IF r.kind # "ok" THEN h
    ELSE [sets |-> HistoryAfterSet(h.sets, tk.cache_key, r.payload, t),
          saves |-> IF saved
                    THEN Put(h.saves, db_cache_key,
                             [payload |-> r.payload,
                              ttl_seconds |-> tk.ttl_seconds,
                              endpoint |-> tk.function, at |-> t])
                    ELSE h.saves,
          fetched |-> Put(h.fetched, <<tk.kind, tk.arg>>, r.payload)]

\* _make_request calling the upstream again after a response it classifies
\* as UpstreamError, instead of raising.
FetchRespondRetry(t, o, dbFails) ==
    /\ task[t].pc = "network"
    /\ ~dbFails
    /\ LET tk == task[t]
           r == Classify(o)
           db_cache_key == BuildCacheKey(tk.function, tk.params)
           saving == r.kind = "ok" /\ tk.ttl_seconds # None
           step == [NoStep EXCEPT
                      !.op = "FetchRespond", !.t = t,
                      !.kind = tk.kind, !.arg = tk.arg,
                      !.cache_key = tk.cache_key,
                      !.db_key = IF saving THEN db_cache_key ELSE << >>,
                      !.outcome = o, !.source = "network",
                      !.cacheSet = (r.kind = "ok"), !.dbSave = saving]
       IN /\ cache' = CacheAfterResponse(cache, tk.cache_key, r, now)
          /\ db' = RowsAfterResponse(db, db_cache_key, r, tk.ttl_seconds,
                                     tk.function, now)
          /\ hist' = HistoryAfterResponse(hist, tk, db_cache_key, r, saving, now)
          /\ IF r.kind = "UpstreamError"
             THEN /\ task' = task
                  /\ last' = [step EXCEPT !.net = TRUE, !.outParams = tk.params]
             ELSE /\ task' = [task EXCEPT ![t] = IdleTask]
                  /\ last' = [step EXCEPT !.done = TRUE, !.result = r]
    /\ UNCHANGED <<apiKey, now, nfetch, nrestarts>>

\* _make_request with the save of lines 367-374 moved before the set of line
\* 366: a save that raises leaves the in-memory cache as it was.
FetchRespondSaveFirst(t, o, dbFails) ==
    /\ task[t].pc = "network"
    /\ LET tk == task[t]
           r == Classify(o)
           saving == r.kind = "ok" /\ tk.ttl_seconds # None
           db_cache_key == BuildCacheKey(tk.function, tk.params)
       IN /\ dbFails => saving
          /\ cache' = IF dbFails THEN cache
                      ELSE CacheAfterResponse(cache, tk.cache_key, r, now)
          /\ db' = IF dbFails THEN db
                   ELSE RowsAfterResponse(db, db_cache_key, r, tk.ttl_seconds,
                                          tk.function, now)
          /\ last' = WithAnswers([NoStep EXCEPT
                        !.op = "FetchRespond", !.t = t,
                        !.kind = tk.kind, !.arg = tk.arg,
                        !.cache_key = tk.cache_key,
                        !.db_key = IF saving THEN db_cache_key ELSE << >>,
                        !.outcome = o, !.done = TRUE, !.source = "network",
                        !.cacheSet = (r.kind = "ok" /\ ~dbFails),
                        !.dbSave = (saving /\ ~dbFails),
                        !.fault = dbFails,
                        !.result = IF dbFails
                                   THEN Raise("sqlite3.Error", NoMessage)
                                   ELSE r])
          /\ hist' = IF dbFails THEN hist
                     ELSE HistoryAfterResponse(hist, tk, db_cache_key, r,
                                               saving, now)
    /\ task' = [task EXCEPT ![t] = IdleTask]
    /\ UNCHANGED <<apiKey, now, nfetch, nrestarts>>

\* _make_request from the return of client.get (lines 313-376): the response
\* is classified and, on success, both caches are populated. dbFails: the
\* SQLite write raises.
FetchRespond(t, o, dbFails) ==
    /\ task[t].pc = "network"
    /\ LET tk == task[t]
           r == Classify(o)
           saving == r.kind = "ok" /\ tk.ttl_seconds # None
           db_cache_key == BuildCacheKey(tk.function, tk.params)
       IN /\ dbFails => saving
          /\ cache' = CacheAfterResponse(cache, tk.cache_key, r, now)
          /\ db' = IF dbFails THEN db
                   ELSE RowsAfterResponse(db, db_cache_key, r, tk.ttl_seconds,
                                          tk.function, now)
          /\ last' = WithAnswers([NoStep EXCEPT
                        !.op = "FetchRespond", !.t = t,
                        !.kind = tk.kind, !.arg = tk.arg,
                        !.cache_key = tk.cache_key,
                        !.db_key = IF saving THEN db_cache_key ELSE << >>,
                        !.outcome = o, !.done = TRUE, !.source = "network",
                        !.cacheSet = (r.kind = "ok"),
                        !.dbSave = (saving /\ ~dbFails),
                        !.fault = dbFails,
                        !.replaced = IF tk.cache_key \in DOMAIN cache
                                     THEN Some(cache[tk.cache_key]) ELSE None,
                        !.replacedRow =
                            IF saving /\ ~dbFails /\ db_cache_key \in DOMAIN db
                            THEN Some(db[db_cache_key]) ELSE None,
                        !.result = IF dbFails
                                   THEN Raise("sqlite3.Error", NoMessage)
                                   ELSE r])
          /\ hist' = HistoryAfterResponse(hist, tk, db_cache_key, r,
                                          saving /\ ~dbFails, now)
    /\ task' = [task EXCEPT ![t] = IdleTask]
    /\ UNCHANGED <<apiKey, now, nfetch, nrestarts>>

\* get_cached_time_series_daily / get_cached_global_quote /
\* get_cached_company_overview: a read of the SQLite row, nothing else.
CachedKinds == {"daily", "quote", "overview"}

\* A cached read that puts the payload it found into the in-memory cache.
CachedReadWarm(kind, symbol, allow_stale, dbFails) ==
    /\ ~dbFails
    /\ LET params == CallParams(kind, symbol)
           cache_key == MemoryCacheKey(RequestParams(params, apiKey))
           entry == GetCached(db, FunctionOf(kind), params, allow_stale, now)
           step == [NoStep EXCEPT !.op = "CachedRead", !.kind = kind,
                                  !.arg = symbol, !.allow_stale = allow_stale,
                                  !.done = TRUE, !.dbGet = TRUE,
                                  !.db_key = BuildCacheKey(FunctionOf(kind), params)]
       IN IF entry = None
          THEN /\ cache' = cache
               /\ last' = [step EXCEPT !.result = Result("absent", NoBody, NoMessage)]
          ELSE /\ cache' = SimpleCacheSet(cache, cache_key, entry[1].payload, now)
               /\ last' = [step EXCEPT !.result = Ok(entry[1].payload),
                                       !.entry = entry, !.source = "persistent",
                                       !.cacheSet = TRUE, !.cache_key = cache_key]
    /\ UNCHANGED <<apiKey, now, db, task, hist, nfetch, nrestarts>>

\* A cached read that answers a failure of the SQLite read as a miss.
CachedReadSwallow(kind, symbol, allow_stale, dbFails) ==
    /\ LET params == CallParams(kind, symbol)
           step == [NoStep EXCEPT !.op = "CachedRead", !.kind = kind,
                                  !.arg = symbol, !.allow_stale = allow_stale,
                                  !.done = TRUE, !.dbGet = TRUE, !.fault = dbFails,
                                  !.db_key = BuildCacheKey(FunctionOf(kind), params)]
           entry == GetCached(db, FunctionOf(kind), params, allow_stale, now)
       IN last' = IF dbFails \/ entry = None
                  THEN [step EXCEPT !.result = Result("absent", NoBody, NoMessage)]
                  ELSE [step EXCEPT !.result = Ok(entry[1].payload),
                                    !.entry = entry, !.source = "persistent"]
    /\ UNCHANGED <<apiKey, now, cache, db, task, hist, nfetch, nrestarts>>

CachedRead(kind, symbol, allow_stale, dbFails) ==
    /\ LET params == CallParams(kind, symbol)
           step == [NoStep EXCEPT !.op = "CachedRead", !.kind = kind,
                                  !.arg = symbol, !.allow_stale = allow_stale,
                                  !.done = TRUE, !.dbGet = TRUE,
                                  !.db_key = BuildCacheKey(FunctionOf(kind), params)]
           entry == GetCached(db, FunctionOf(kind), params, allow_stale, now)
       IN /\ last' = WithAnswers(
                  IF dbFails
                  THEN [step EXCEPT !.fault = TRUE,
                                    !.result = Raise("sqlite3.Error", NoMessage)]
                  ELSE IF entry = None
                  THEN [step EXCEPT !.result = Result("absent", NoBody, NoMessage)]
                  ELSE [step EXCEPT !.result = Ok(entry[1].payload),
                                    !.entry = entry, !.source = "persistent"])
          /\ db' = IF dbFails THEN db
                   ELSE SQLiteGetRows(db, BuildCacheKey(FunctionOf(kind), params),
                                      allow_stale, now)
    /\ UNCHANGED <<apiKey, now, cache, task, hist, nfetch, nrestarts>>

---------------------------------------------------------------------------
\* The two caches used on their own, as the client's _cache and _store
\* objects can be by any caller.

\* The keys, values and instants of the direct calls.
CacheKeys ==
    {MemoryCacheKey(RequestParams(CallParams("quote", "IBM"), "key1")),
     MemoryCacheKey(RequestParams(CallParams("search", "ibm"), "key1"))}
CacheValues == {QuoteBodyA, QuoteBodyB}
CacheTimes == {0, 120, 121, 240, 241}

OverviewBody == Obj({<<"Symbol", "IBM">>, <<"Name", "IBM Corp">>})
StoreKeys ==
    {BuildCacheKey("GLOBAL_QUOTE", CallParams("quote", "IBM")),
     BuildCacheKey("OVERVIEW", CallParams("overview", "IBM"))}
StorePayloads == {QuoteBodyA, OverviewBody}
StoreTtls == {None, Some(QuoteTtl), Some(OverviewTtl)}
StoreEndpoints == {"GLOBAL_QUOTE", "OVERVIEW"}
StoreTimes == {0, 600, 601}

\* SimpleCache.set(key, value)
CacheSet(key, value) ==
    /\ cache' = SimpleCacheSet(cache, key, value, now)
    /\ hist' = [hist EXCEPT !.sets = HistoryAfterSet(@, key, value, now)]
    /\ last' = [NoStep EXCEPT !.op = "CacheSet", !.cache_key = key,
                              !.value = value, !.done = TRUE,
                              !.cacheSet = TRUE]
    /\ UNCHANGED <<apiKey, now, db, task, nfetch, nrestarts>>

\* SimpleCache.get(key)
CacheGet(key) ==
    /\ cache' = SimpleCacheGetStore(cache, key, now)
    /\ LET cached == SimpleCacheGet(cache, key, now)
       IN last' = [NoStep EXCEPT
                     !.op = "CacheGet", !.cache_key = key, !.done = TRUE,
                     !.cacheGet = TRUE,
                     !.result = IF cached = None
                                THEN Result("absent", NoBody, NoMessage)
                                ELSE Ok(cached[1])]
    /\ UNCHANGED <<apiKey, now, db, task, hist, nfetch, nrestarts>>

\* SQLiteCache.save(cache_key, payload, ttl_seconds, endpoint); the step
\* records the row it replaced.
StoreSave(cache_key, payload, ttl_seconds, endpoint) ==
    /\ db' = SQLiteSave(db, cache_key, payload, ttl_seconds, endpoint, now)
    /\ hist' = [hist EXCEPT !.saves =
                  Put(@, cache_key,
                      [payload |-> payload, ttl_seconds |-> ttl_seconds,
                       endpoint |-> endpoint, at |-> now])]
    /\ last' = [NoStep EXCEPT
                  !.op = "StoreSave", !.db_key = cache_key, !.value = payload,
                  !.ttl_seconds = ttl_seconds, !.endpoint = endpoint,
                  !.done = TRUE, !.dbSave = TRUE,
                  !.entry = IF cache_key \in DOMAIN db
                            THEN Some(db[cache_key]) ELSE None]
    /\ UNCHANGED <<apiKey, now, cache, task, nfetch, nrestarts>>

\* SQLiteCache.get(cache_key, allow_stale)
StoreGet(cache_key, allow_stale) ==
    /\ db' = SQLiteGetRows(db, cache_key, allow_stale, now)
    /\ LET entry == SQLiteGet(db, cache_key, allow_stale, now)
       IN last' = [NoStep EXCEPT
                     !.op = "StoreGet", !.db_key = cache_key,
                     !.allow_stale = allow_stale, !.done = TRUE,
                     !.dbGet = TRUE, !.entry = entry,
                     !.result = IF entry = None
                                THEN Result("absent", NoBody, NoMessage)
                                ELSE Ok(entry[1].payload)]
    /\ UNCHANGED <<apiKey, now, cache, task, hist, nfetch, nrestarts>>

\* SQLiteCache.save as the other connections see it. The with block opens a
\* transaction at the INSERT and commits it on exit: until then the row is
\* in the writer's connection only.

\* The INSERT written through at once, payload column first.
SQLiteExecuteRowsPayloadFirst(rows, cache_key, row) ==
    IF cache_key \in DOMAIN rows
    THEN Put(rows, cache_key, [rows[cache_key] EXCEPT !.payload = row.payload])
    ELSE rows

\* The table of the other connections after the INSERT, before the commit.
SQLiteExecuteRows(rows, cache_key, row) == rows

\* The table after the commit.
SQLiteCommitRows(rows, cache_key, row) == Put(rows, cache_key, row)

\* The keys, payloads and TTLs of the saves that readers race with.
ThreadKeys == {BuildCacheKey("GLOBAL_QUOTE", CallParams("quote", "IBM"))}
ThreadTtls == {Some(QuoteTtl), Some(OverviewTtl)}

\* save, lines 113-121: the row is built (json.dumps, _now) and inserted.
SaveExecute(cache_key, payload, ttl_seconds, endpoint) ==
    /\ task["t1"].pc = "idle"
    /\ LET row == SQLiteSave(EmptyMap, cache_key, payload, ttl_seconds,
                             endpoint, now)[cache_key]
       IN /\ db' = SQLiteExecuteRows(db, cache_key, row)
          /\ task' = [task EXCEPT !["t1"] =
                        [IdleTask EXCEPT
                           !.pc = "commit",
                           !.pending = Some([cache_key |-> cache_key,
                                             row |-> row,
                                             payload |-> payload,
                                             ttl_seconds |-> ttl_seconds])]]
    /\ last' = [NoStep EXCEPT !.op = "SaveExecute", !.t = "t1",
                              !.db_key = cache_key, !.value = payload,
                              !.ttl_seconds = ttl_seconds, !.endpoint = endpoint]
    /\ UNCHANGED <<apiKey, now, cache, hist, nfetch, nrestarts>>

\* save, line 114: the with block exits and commits.
SaveCommit ==
    /\ task["t1"].pc = "commit"
    /\ LET p == task["t1"].pending[1]
       IN /\ db' = SQLiteCommitRows(db, p.cache_key, p.row)
          /\ hist' = [hist EXCEPT !.saves =
                        Put(@, p.cache_key,
                            [payload |-> p.payload,
                             ttl_seconds |-> p.ttl_seconds,
                             endpoint |-> p.row.endpoint,
                             at |-> p.row.fetched_at])]
          /\ last' = [NoStep EXCEPT !.op = "SaveCommit", !.t = "t1",
                                    !.db_key = p.cache_key, !.done = TRUE,
                                    !.dbSave = TRUE]
    /\ task' = [task EXCEPT !["t1"] = IdleTask]
    /\ UNCHANGED <<apiKey, now, cache, nfetch, nrestarts>>

\* Time passes.
Tick(later) ==
    /\ later > now
    /\ now' = later
    /\ last' = [NoStep EXCEPT !.op = "Tick"]
    /\ UNCHANGED <<apiKey, cache, db, task, hist, nfetch, nrestarts>>

\* A restart that finds the in-memory cache as the old process left it.
RestartKeepCache(key) ==
    /\ nrestarts < MaxRestarts
    /\ apiKey' = key
    /\ task' = [t \in TaskIds |-> IdleTask]
    /\ nrestarts' = nrestarts + 1
    /\ last' = [NoStep EXCEPT !.op = "Restart"]
    /\ hist' = [hist EXCEPT !.sets = EmptyMap]
    /\ UNCHANGED <<now, cache, db, nfetch>>

\* The process stops and starts again (AlphaVantageClient.__init__): the
\* in-memory cache and the running coroutines are gone, the SQLite file stays,
\* the API key is read anew.
Restart(key) ==
    /\ nrestarts < MaxRestarts
    /\ apiKey' = key
    /\ cache' = EmptyMap
    /\ task' = [t \in TaskIds |-> IdleTask]
    /\ nrestarts' = nrestarts + 1
    /\ last' = [NoStep EXCEPT !.op = "Restart"]
    /\ hist' = [hist EXCEPT !.sets = EmptyMap]
    /\ UNCHANGED <<now, db, nfetch>>

\* The client under concurrent fetches, cached reads and passing time.
Next ==
    \/ \E t \in TaskIds, req \in CoreRequests : FetchStart(t, req, FALSE)
    \/ \E t \in TaskIds, o \in CoreOutcomes : FetchRespond(t, o, FALSE)
    \/ \E k \in CachedKinds, s \in Symbols, a \in BOOLEAN :
          CachedRead(k, s, a, FALSE)
    \/ \E later \in Times : Tick(later)

Spec == Init /\ [][Next]_vars

\* The upstream call of every waiting fetch comes back: client.get returns a
\* response or raises after the timeout of 10 s (line 311).
Fairness ==
    \A t \in TaskIds : WF_vars(\E o \in CoreOutcomes : FetchRespond(t, o, FALSE))

SpecLive == Spec /\ Fairness

\* A route whose validation raises: _handle_error answers, the client is not
\* called.
RouteReject(kind, route, input) ==
    /\ kind \in CallKinds \ {"gold", "silver"}
    /\ route \in RoutesOf("FetchStart", kind)
                 \cup (IF kind \in CachedKinds THEN {"cache"} ELSE {})
    /\ LET raised == IF kind = "search" THEN ValidateKeywords(input)
                     ELSE ValidateSymbol(input)
       IN /\ raised # None
          /\ last' = [NoStep EXCEPT
                        !.op = "RouteReject", !.kind = kind, !.arg = input,
                        !.done = TRUE, !.result = raised[1],
                        !.http = [x \in {route} |-> HandleError(raised[1])]]
    /\ UNCHANGED <<apiKey, now, cache, db, task, hist, nfetch, nrestarts>>

\* The instants past the TTL of the 600 s rows and of the 86400 s rows.
KindTimes == {601, 86401}

\* One fetch at a time, of every call kind, with cached reads and passing
\* time in between.
NextKinds ==
    \/ \E req \in ValidRequests : FetchStart("t1", req, FALSE)
    \/ \E o \in KindOutcomes : FetchRespond("t1", o, FALSE)
    \/ \E k \in CachedKinds, s \in Symbols, a \in BOOLEAN :
          CachedRead(k, s, a, FALSE)
    \/ \E later \in KindTimes : Tick(later)

SpecKinds == Init /\ [][NextKinds]_vars

\* The call kinds behind the routes: a persisted kind, the daily series
\* with its windows, a volatile-only kind.
RouteRequests == {r \in ValidRequests : r.kind \in {"quote", "daily", "search"}}

\* The routes, one request at a time: validation failures, fetches against
\* an outcome of each origin, cached views, passing time.
NextRoutes ==
    \/ \E req \in RouteRequests, route \in WindowRoutes \cup {"fetch", "cache"},
          input \in PathInputs : RouteReject(req.kind, route, input)
    \/ \E req \in RouteRequests : FetchStart("t1", req, FALSE)
    \/ \E o \in CoreOutcomes : FetchRespond("t1", o, FALSE)
    \/ \E k \in {"quote", "daily"}, s \in Symbols, a \in BOOLEAN :
          CachedRead(k, s, a, FALSE)
    \/ Tick(601)

SpecRoutes == Init /\ [][NextRoutes]_vars

\* The daily payloads of the upstream: "Time Series (Daily)" maps the date of
\* a trading day, as YYYY-MM-DD text, to the data point of the day.
TwoDigits(n) == <<48 + (n \div 10), 48 + (n % 10)>>
FourDigits(n) ==
    <<48 + (n \div 1000), 48 + ((n \div 100) % 10)>> \o TwoDigits(n % 100)
DateText(y, m, d) ==
    FourDigits(y) \o <<Dash>> \o TwoDigits(m) \o <<Dash>> \o TwoDigits(d)

\* 32 consecutive days across the turn of a year: 2023-12-16 .. 2024-01-16.
DayCount == 32
DayText(i) ==
    IF i <= 16 THEN DateText(2023, 12, 15 + i) ELSE DateText(2024, 1, i - 16)
DataPoint(i) == Obj({<<"4. close", ToString(100 + i)>>})

DailySeries(days) == Obj({<<DayText(i), DataPoint(i)>> : i \in days})
DailyPayload(series) == Obj({<<SeriesField, series>>})

\* The numbers of entries around each window, and the days of a series:
\* the newest N, the oldest N, every second day.
SeriesSizes == {1, 6, 7, 8, 14, 15, 16, 29, 30, 31, 32}
SeriesDays ==
    {(DayCount + 1 - n) .. DayCount : n \in SeriesSizes}
    \cup {1 .. n : n \in SeriesSizes}
    \cup {{i \in 1 .. DayCount : i % 2 = 0}}

\* Payloads with a series, with an empty one, with a series that is no dict,
\* and without one.
WindowBodies ==
    {DailyPayload(DailySeries(days)) : days \in SeriesDays}
    \cup {DailyPayload(Obj({})), DailyPayload(Arr({})), DailyPayload(JsonNull),
          Obj({})}

WindowOutcomes == {Outcome(FALSE, "", 200, TRUE, b) : b \in WindowBodies}

\* Fetches of the daily series, as the window routes make them.
NextWindow ==
    \/ \E t \in TaskIds : FetchStart(t, [kind |-> "daily", arg |-> "IBM"], FALSE)
    \/ \E t \in TaskIds, o \in WindowOutcomes : FetchRespond(t, o, FALSE)

SpecWindow == Init /\ [][NextWindow]_vars

\* One fetch at a time of a call kind of each TTL policy, across restarts,
\* with the clock at every TTL and one second past it.
NextFresh ==
    \/ \E req \in CoreRequests : FetchStart("t1", req, FALSE)
    \/ \E o \in KindOutcomes : FetchRespond("t1", o, FALSE)
    \/ \E later \in Times : Tick(later)
    \/ \E key \in ApiKeys : Restart(key)

SpecFresh == Init /\ [][NextFresh]_vars

\* One fetch at a time, against every outcome of the upstream call.
NextClassify ==
    \/ \E req \in ClassifyRequests : FetchStart("t1", req, FALSE)
    \/ \E o \in Outcomes : FetchRespond("t1", o, FALSE)

SpecClassify == Init /\ [][NextClassify]_vars

\* The instants at which a 600 s row is at its TTL and past it.
RestartTimes == {600, 601}

\* One fetch at a time across process restarts.
NextRestart ==
    \/ \E req \in ValidRequests : FetchStart("t1", req, FALSE)
    \/ \E o \in KindOutcomes : FetchRespond("t1", o, FALSE)
    \/ \E later \in RestartTimes : Tick(later)
    \/ \E key \in ApiKeys : Restart(key)

SpecRestart == Init /\ [][NextRestart]_vars

\* One fetch at a time, _make_request called with the params of a call kind
\* in every insertion order.
NextParams ==
    \/ \E req \in CoreRequests :
          \E p \in Orderings(CallParams(req.kind, req.arg)) :
              MakeRequestStart("t1", req.kind, req.arg, p, FALSE)
    \/ \E o \in KindOutcomes : FetchRespond("t1", o, FALSE)
    \/ \E later \in Times : Tick(later)

SpecParams == Init /\ [][NextParams]_vars

\* One fetch at a time and cached reads, each SQLite operation raising or not.
NextFaults ==
    \/ \E req \in CoreRequests, f \in BOOLEAN : FetchStart("t1", req, f)
    \/ \E o \in KindOutcomes, f \in BOOLEAN : FetchRespond("t1", o, f)
    \/ \E k \in CachedKinds, s \in Symbols, a \in BOOLEAN, f \in BOOLEAN :
          CachedRead(k, s, a, f)
    \/ \E later \in KindTimes : Tick(later)

SpecFaults == Init /\ [][NextFaults]_vars

\* The in-memory cache under direct sets and gets.
NextCache ==
    \/ \E key \in CacheKeys, value \in CacheValues : CacheSet(key, value)
    \/ \E key \in CacheKeys : CacheGet(key)
    \/ \E later \in CacheTimes : Tick(later)

SpecCache == Init /\ [][NextCache]_vars

\* The SQLite table under direct saves and gets.
NextStore ==
    \/ \E cache_key \in StoreKeys, payload \in StorePayloads,
          ttl_seconds \in StoreTtls, endpoint \in StoreEndpoints :
          StoreSave(cache_key, payload, ttl_seconds, endpoint)
    \/ \E cache_key \in StoreKeys, allow_stale \in BOOLEAN :
          StoreGet(cache_key, allow_stale)
    \/ \E later \in StoreTimes : Tick(later)

SpecStore == Init /\ [][NextStore]_vars

\* Saves of one key on the event loop, their INSERT and their commit as two
\* steps, and gets of worker threads in between.
NextThreads ==
    \/ \E cache_key \in ThreadKeys, payload \in StorePayloads,
          ttl_seconds \in ThreadTtls :
          SaveExecute(cache_key, payload, ttl_seconds, cache_key[1])
    \/ SaveCommit
    \/ \E cache_key \in ThreadKeys, allow_stale \in BOOLEAN :
          StoreGet(cache_key, allow_stale)
    \/ \E later \in StoreTimes : Tick(later)

SpecThreads == Init /\ [][NextThreads]_vars

---------------------------------------------------------------------------
\* Properties.

\* The keys of a descriptor (call kind and argument) in a process whose API
\* key is key.
VolatileKeyOf(kind, arg, key) ==
    MemoryCacheKey(RequestParams(CallParams(kind, arg), key))
PersistentKeyOf(kind, arg, key) ==
    BuildCacheKey(FunctionOf(kind), RequestParams(CallParams(kind, arg), key))

\* The volatile entry of a key is there and not older than the TTL.
Unexpired(store, key, t) == key \in DOMAIN store /\ t - store[key][2] <= VolatileTtl

\* The persistent row of a key is there and not older than its ttl_seconds.
FreshRow(rows, key, t) ==
    key \in DOMAIN rows /\ t - rows[key].fetched_at <= rows[key].ttl_seconds

\* This step is the first part of a fetch, up to the upstream call.
StartStep == nfetch' = nfetch + 1

\* This step is the second part of a fetch, from the upstream response on.
RespondStep ==
    /\ last'.op = "FetchRespond"
    /\ last'.t \in TaskIds
    /\ task[last'.t].pc = "network"
    /\ task'[last'.t].pc = "idle"

MarkerNames == {"Note", "Error Message", "Information"}

HasField(body, name) == \E p \in body.items : p[1] = name

\* A 2xx response with a non-empty JSON object that has no marker field.
GoodResponse(o) ==
    /\ ~o.transport
    /\ o.status \in 200..299
    /\ o.decodable
    /\ o.body.kind = "object"
    /\ o.body.items # {}
    /\ \A m \in MarkerNames : ~HasField(o.body, m)

\* C1: the API key never influences a cache key: the key a fetch uses for the
\* Volatile Cache and the key it uses for the Persistent Cache are the same
\* under every value of the client's API key.
C1_ApiKeyNeverInCacheKey ==
    last.op = "FetchStart" =>
        \A key \in ApiKeys :
            /\ VolatileKeyOf(last.kind, last.arg, key) = last.cache_key
            /\ last.dbGet => PersistentKeyOf(last.kind, last.arg, key) = last.db_key

\* C2: a fetch that finds an unexpired Volatile Cache entry for its
\* descriptor returns that entry's value and ends in success, issues no
\* network call and neither reads nor writes the Persistent Cache.
C2_VolatileHitReturnsEntry ==
    [][LET key == VolatileKeyOf(last'.kind, last'.arg, apiKey)
       IN (StartStep /\ Unexpired(cache, key, now)) =>
              /\ last'.done
              /\ last'.result = Ok(cache[key][1])
              /\ ~last'.net /\ ~last'.dbGet /\ ~last'.dbSave
              /\ db' = db
              /\ task' = task]_vars

C2_Witness ==
    /\ last.op = "FetchStart"
    /\ last.source = "volatile"
    /\ last.result.kind = "ok"
    /\ now - cache[last.cache_key][2] = VolatileTtl

\* C3: when the Volatile Cache misses and the Persistent Cache holds a fresh
\* row (age <= ttl_seconds) for the descriptor, fetch returns the row's stored
\* payload and performs no network call.
C3_PersistentHitNoNetwork ==
    [][LET vkey == VolatileKeyOf(last'.kind, last'.arg, apiKey)
           pkey == PersistentKeyOf(last'.kind, last'.arg, apiKey)
       IN (StartStep /\ ~Unexpired(cache, vkey, now) /\ FreshRow(db, pkey, now)) =>
              /\ last'.done
              /\ last'.result = Ok(JsonLoads(db[pkey].payload))
              /\ ~last'.net
              /\ task' = task]_vars

C3_Witness ==
    /\ last.op = "FetchStart"
    /\ last.source = "persistent"
    /\ last.result.kind = "ok"
    /\ now - db[last.db_key].fetched_at = db[last.db_key].ttl_seconds

\* C4: a fetch served from the Persistent Cache leaves the Volatile Cache
\* without an entry for its descriptor, and a Volatile Cache entry is created
\* or changed only by the fetch that completed an upstream call with a
\* success classification, under the key of that fetch.
C4_PersistentHitLeavesVolatileEmpty ==
    [][/\ (StartStep /\ last'.source = "persistent") =>
              VolatileKeyOf(last'.kind, last'.arg, apiKey) \notin DOMAIN cache'
       /\ \A key \in DOMAIN cache' :
              (key \notin DOMAIN cache \/ cache'[key] # cache[key]) =>
                  /\ RespondStep
                  /\ GoodResponse(last'.outcome)
                  /\ key = VolatileKeyOf(last'.kind, last'.arg, apiKey)]_vars

C4_Witness ==
    /\ last.op = "FetchStart"
    /\ last.source = "persistent"
    /\ last.kind = "overview"
    /\ last.cache_key \notin DOMAIN cache
    /\ now > VolatileTtl

\* C5: a fetch that ends in a typed failure creates and overwrites no entry of
\* the Volatile Cache and no row of the Persistent Cache: neither of its two
\* steps does, and the rows that existed keep payload, fetched_at and
\* ttl_seconds.
C5_FailureWritesNothing ==
    [][/\ StartStep =>
              /\ db' = db
              /\ \A key \in DOMAIN cache' :
                     key \in DOMAIN cache /\ cache'[key] = cache[key]
       /\ (RespondStep /\ last'.result.kind \in TypedFailures) =>
              /\ db' = db
              /\ cache' = cache]_vars

C5_Witness ==
    /\ last.op = "FetchRespond"
    /\ last.result.kind = "RateLimitError"
    /\ LET pkey == PersistentKeyOf(last.kind, last.arg, apiKey)
       IN pkey \in DOMAIN db /\ ~FreshRow(db, pkey, now)

\* C6: when the upstream call is classified as success, fetch returns the
\* body unchanged, the Volatile Cache holds it under the descriptor, and the
\* Persistent Cache is written if and only if the call kind has a TTL; for
\* quote the row has ttl_seconds 600 and a payload equal to the body.
C6_SuccessPopulates ==
    [][LET o == last'.outcome
           vkey == VolatileKeyOf(last'.kind, last'.arg, apiKey)
           pkey == PersistentKeyOf(last'.kind, last'.arg, apiKey)
       IN (RespondStep /\ GoodResponse(o)) =>
              /\ last'.result = Ok(o.body)
              /\ vkey \in DOMAIN cache' /\ cache'[vkey] = <<o.body, now>>
              /\ TtlOf(last'.kind) # None =>
                     /\ pkey \in DOMAIN db'
                     /\ JsonLoads(db'[pkey].payload) = o.body
                     /\ db'[pkey].ttl_seconds = TtlOf(last'.kind)[1]
                     /\ db'[pkey].fetched_at = now
              /\ TtlOf(last'.kind) = None => db' = db
              /\ last'.kind = "quote" =>
                     /\ pkey \in DOMAIN db'
                     /\ db'[pkey].ttl_seconds = 600
                     /\ JsonLoads(db'[pkey].payload) = o.body]_vars

C6_Witness ==
    /\ last.op = "FetchRespond"
    /\ last.kind = "quote"
    /\ last.result = Ok(QuoteBodyB)
    /\ last.db_key \in DOMAIN db
    /\ db[last.db_key].ttl_seconds = 600
    /\ cache[last.cache_key][1] = QuoteBodyB

\* C7: every Persistent Cache row belongs to GLOBAL_QUOTE, TIME_SERIES_DAILY
\* or OVERVIEW, carries ttl_seconds 600, 600 and 86400 respectively and an
\* endpoint label equal to the function name of its key; no fetch of another
\* call kind creates a row.
C7_RowsOfPersistedKindsOnly ==
    \A key \in DOMAIN db :
        /\ key[1] = db[key].endpoint
        /\ \/ db[key].endpoint = "GLOBAL_QUOTE" /\ db[key].ttl_seconds = 600
           \/ db[key].endpoint = "TIME_SERIES_DAILY" /\ db[key].ttl_seconds = 600
           \/ db[key].endpoint = "OVERVIEW" /\ db[key].ttl_seconds = 86400

C7_Witness ==
    /\ last.op = "FetchRespond"
    /\ last.kind \in {"search", "weekly", "monthly", "gold", "silver"}
    /\ last.result.kind = "ok"
    /\ Cardinality(DOMAIN db) = 1
    /\ \E key \in DOMAIN db : db[key].endpoint = "OVERVIEW"

\* The text of a field of a JSON object.
TextOf(body, name) == (CHOOSE p \in body.items : p[1] = name)[2]

\* A 2xx response whose body decodes to a JSON object.
ObjectResponse(o) ==
    /\ ~o.transport
    /\ o.status \in 200..299
    /\ o.decodable
    /\ o.body.kind = "object"

C10_FirstMarkerWins ==
    (last.op = "FetchRespond" /\ ObjectResponse(last.outcome)
       /\ Cardinality({m \in MarkerNames : HasField(last.outcome.body, m)}) > 1) =>
        LET b == last.outcome.body
            r == last.result
            first == IF HasField(b, "Note") THEN "Note" ELSE "Error Message"
        IN /\ r.kind = (IF first = "Note" THEN "RateLimitError"
                        ELSE "InvalidSymbolError")
           /\ r.msg.text = TextOf(b, first)
           /\ r.payload = NoBody
           /\ (HasField(b, "Note") /\ HasField(b, "Error Message")) =>
                  r.kind = "RateLimitError"
           /\ (HasField(b, "Error Message") /\ HasField(b, "Information")
                 /\ ~HasField(b, "Note")) =>
                  r.kind = "InvalidSymbolError"

C10_Witness ==
    /\ last.op = "FetchRespond"
    /\ HasField(last.outcome.body, "Note")
    /\ HasField(last.outcome.body, "Error Message")
    /\ ~HasField(last.outcome.body, "Information")
    /\ last.result.kind = "RateLimitError"
    /\ last.result.msg.text = "Too many requests."

\* A 2xx response whose body was decoded.
DecodedResponse(o) ==
    /\ ~o.transport
    /\ o.status \in 200..299
    /\ o.decodable

\* The empty and falsy JSON values: {}, [], null, "", 0.
EmptyBodies == {Obj({}), Arr({}), JsonNull, Str(""), Num(0)}

\* C11: a 2xx response whose decoded body is empty or falsy ({}, [], null,
\* "", 0) is classified as a Generic failure (APIError), and the fetch writes
\* neither cache.
C11_EmptyBodyIsGeneric ==
    (last.op = "FetchRespond" /\ DecodedResponse(last.outcome)
       /\ last.outcome.body \in EmptyBodies) =>
        /\ last.result.kind = "APIError"
        /\ ~last.cacheSet
        /\ ~last.dbSave

\* C12: classification is total and closed over the taxonomy: whatever the
\* upstream call comes back with (transport failure, any status, any 2xx
\* body, a body that is not JSON), the fetch ends in a success payload or in
\* one of the typed failures, and in nothing else.
C12_ClassificationClosed ==
    last.op = "FetchRespond" =>
        \/ last.result.kind = "ok" /\ last.result.payload # NoBody
        \/ last.result.kind \in TypedFailures /\ last.result.payload = NoBody

\* C13: the key of the Volatile Cache and the key of the Persistent Cache are
\* the same for every insertion order of the arguments: whatever order the
\* params of a fetch came in, every other order of the same items (before and
\* after the API key is attached) yields the keys this fetch used.
C13_KeyIgnoresInsertionOrder ==
    last.op = "FetchStart" =>
        /\ \A p \in Orderings(last.params) :
               /\ MemoryCacheKey(RequestParams(p, apiKey)) = last.cache_key
               /\ last.dbGet =>
                      BuildCacheKey(GetItem(p, "function", "UNKNOWN"),
                                    RequestParams(p, apiKey)) = last.db_key
        /\ \A q \in Orderings(RequestParams(last.params, apiKey)) :
               /\ MemoryCacheKey(q) = last.cache_key
               /\ last.dbGet =>
                      BuildCacheKey(GetItem(q, "function", "UNKNOWN"), q)
                          = last.db_key

C13_Witness ==
    /\ last.op = "FetchStart"
    /\ last.dbGet
    /\ last.params = << <<"symbol", "IBM">>, <<"function", "GLOBAL_QUOTE">> >>
    /\ last.db_key = BuildCacheKey("GLOBAL_QUOTE", CallParams("quote", "IBM"))

\* The result of a get that found nothing to return.
Absent == Result("absent", NoBody, NoMessage)

\* The ttl_seconds a save with this argument writes.
SavedTtl(s) == IF s.ttl_seconds = None THEN 600 ELSE s.ttl_seconds[1]

\* C14: SQLiteCache.get(key, allow_stale) returns absent when the key was
\* never saved, and absent when the row is stale (now - fetched_at >
\* ttl_seconds) and allow_stale is false; otherwise it returns the payload,
\* fetched_at and ttl_seconds of the latest save with stale computed at this
\* read. After save(k, v, ttl=600): get(k, false) returns v, not stale, up to
\* age 600; from age 601 get(k, false) is absent and get(k, true) returns v
\* with stale true.
C14_PersistentGet ==
    last.op = "StoreGet" =>
        LET k == last.db_key
        IN /\ k \notin DOMAIN hist.saves =>
                  last.entry = None /\ last.result = Absent
           /\ k \in DOMAIN hist.saves =>
                  LET s == hist.saves[k]
                      age == now - s.at
                      stale == age > SavedTtl(s)
                  IN /\ (stale /\ ~last.allow_stale) =>
                            last.entry = None /\ last.result = Absent
                     /\ ~(stale /\ ~last.allow_stale) =>
                            /\ last.entry =
                                   Some([payload |-> s.payload,
                                         fetched_at |-> s.at,
                                         ttl_seconds |-> SavedTtl(s),
                                         stale |-> stale])
                            /\ last.result = Ok(s.payload)
                     /\ s.ttl_seconds = Some(600) =>
                            /\ (age <= 600) =>
                                   /\ last.entry # None
                                   /\ last.entry[1].payload = s.payload
                                   /\ last.entry[1].stale = FALSE
                            /\ (age >= 601 /\ ~last.allow_stale) =>
                                   last.entry = None
                            /\ (age >= 601 /\ last.allow_stale) =>
                                   /\ last.entry # None
                                   /\ last.entry[1].payload = s.payload
                                   /\ last.entry[1].stale = TRUE

C14_Witness ==
    /\ last.op = "StoreGet"
    /\ last.allow_stale
    /\ last.db_key \in DOMAIN hist.saves
    /\ hist.saves[last.db_key].ttl_seconds = Some(600)
    /\ hist.saves[last.db_key].payload = OverviewBody
    /\ now - hist.saves[last.db_key].at = 601
    /\ last.entry # None
    /\ last.entry[1].stale
    /\ last.entry[1].payload = OverviewBody

\* C15: SimpleCache.get returns absent exactly when the key was never set or
\* more than the TTL (120 s) has passed since its latest set; a get that finds
\* an expired entry removes it, so the store no longer contains it; an entry
\* of age at most the TTL is returned and kept.
C15_VolatileGet ==
    last.op = "CacheGet" =>
        LET k == last.cache_key
            expired == k \in DOMAIN hist.sets /\ now - hist.sets[k].at > 120
        IN /\ (last.result = Absent) <=> (k \notin DOMAIN hist.sets \/ expired)
           /\ expired => k \notin DOMAIN cache
           /\ (k \in DOMAIN hist.sets /\ ~expired) =>
                  /\ last.result = Ok(hist.sets[k].value)
                  /\ k \in DOMAIN cache
                  /\ cache[k] = <<hist.sets[k].value, hist.sets[k].at>>

C15_Witness ==
    /\ last.op = "CacheGet"
    /\ last.result = Absent
    /\ last.cache_key \in DOMAIN hist.sets
    /\ now - hist.sets[last.cache_key].at = 121
    /\ last.cache_key \notin DOMAIN cache
    /\ \E k \in DOMAIN cache : now - cache[k][2] = 120

\* C16: SimpleCache.set is an unconditional upsert: it stores the value with
\* the current time whatever was there and touches no other key, a get right
\* after it returns the value just set, and the expiry of an entry is measured
\* from its latest set, not from its first.
C16_VolatileSetUpserts ==
    [][/\ last'.op = "CacheSet" =>
              /\ DOMAIN cache' = DOMAIN cache \cup {last'.cache_key}
              /\ cache'[last'.cache_key] = <<last'.value, now>>
              /\ \A k \in DOMAIN cache \ {last'.cache_key} : cache'[k] = cache[k]
       /\ (last.op = "CacheSet" /\ last'.op = "CacheGet"
             /\ last'.cache_key = last.cache_key) =>
              /\ last'.result = Ok(last.value)
              /\ cache' = cache
       /\ (last'.op = "CacheGet" /\ last'.cache_key \in DOMAIN hist.sets
             /\ now - hist.sets[last'.cache_key].at <= 120) =>
              last'.result = Ok(hist.sets[last'.cache_key].value)]_vars

C16_Witness ==
    /\ last.op = "CacheGet"
    /\ last.cache_key \in DOMAIN hist.sets
    /\ hist.sets[last.cache_key].first = 0
    /\ hist.sets[last.cache_key].at = 120
    /\ hist.sets[last.cache_key].value = QuoteBodyB
    /\ now = 240
    /\ last.result = Ok(QuoteBodyB)

\* C17: the table holds one row per saved key, and it is the row of the
\* latest save: a save on an existing key replaces payload, endpoint,
\* fetched_at and ttl_seconds by its own, and leaves the rows of all other
\* keys as they were.
C17_SaveReplacesRow ==
    [][/\ last'.op = "StoreSave" =>
              LET k == last'.db_key
              IN /\ DOMAIN db' = DOMAIN db \cup {k}
                 /\ JsonLoads(db'[k].payload) = last'.value
                 /\ db'[k].endpoint = last'.endpoint
                 /\ db'[k].fetched_at = now
                 /\ db'[k].ttl_seconds =
                        (IF last'.ttl_seconds = None THEN 600
                         ELSE last'.ttl_seconds[1])
                 /\ \A x \in DOMAIN db \ {k} : db'[x] = db[x]
       /\ DOMAIN db' = DOMAIN hist'.saves
       /\ \A k \in DOMAIN db' :
              /\ JsonLoads(db'[k].payload) = hist'.saves[k].payload
              /\ db'[k].endpoint = hist'.saves[k].endpoint
              /\ db'[k].fetched_at = hist'.saves[k].at
              /\ db'[k].ttl_seconds = SavedTtl(hist'.saves[k])]_vars

C17_Witness ==
    /\ last.op = "StoreSave"
    /\ last.entry # None
    /\ JsonLoads(last.entry[1].payload) # last.value
    /\ last.entry[1].endpoint # last.endpoint
    /\ last.entry[1].fetched_at # now
    /\ last.entry[1].ttl_seconds # db[last.db_key].ttl_seconds
    /\ db[last.db_key].endpoint = last.endpoint
    /\ Cardinality(DOMAIN db) = 2

\* C18: no operation deletes a row: the keys of the table never get fewer
\* over fetches, cached reads and passing time; a read (the lookup of a fetch
\* or a cached read, allow_stale true or false, row fresh or stale) leaves the
\* table as it was; and a row, stale or not, stays retrievable with
\* allow_stale=true and keeps its payload until a fetch that completed a
\* successful upstream call overwrites it.
C18_RowsNeverDeleted ==
    [][/\ DOMAIN db \subseteq DOMAIN db'
       /\ (last'.op \in {"CachedRead", "FetchStart"} /\ last' # last) => db' = db
       /\ \A k \in DOMAIN db :
              /\ SQLiteGet(db', k, TRUE, now') # None
              /\ db'[k] # db[k] =>
                     /\ RespondStep
                     /\ last'.result.kind = "ok"
                     /\ k = last'.db_key]_vars

C18_Witness ==
    /\ last.op = "CachedRead"
    /\ last.allow_stale
    /\ last.entry # None
    /\ last.entry[1].stale
    /\ last.db_key \in DOMAIN db
    /\ nfetch = MaxFetches

\* C19: a cached read (get_cached_* for quote, daily series or overview)
\* issues no network call, neither reads nor writes the in-memory cache and
\* leaves the table as it was, for every argument and both values of
\* allow_stale.
C19_CachedReadTouchesNothing ==
    [][last'.op = "CachedRead" =>
           /\ cache' = cache
           /\ db' = db
           /\ task' = task
           /\ nfetch' = nfetch
           /\ ~last'.net
           /\ ~last'.cacheGet
           /\ ~last'.cacheSet
           /\ ~last'.dbSave]_vars

C19_Witness ==
    /\ last.op = "CachedRead"
    /\ last.result.kind = "ok"
    /\ LET key == VolatileKeyOf(last.kind, last.arg, apiKey)
       IN key \in DOMAIN cache /\ now - cache[key][2] > VolatileTtl

\* C20: the cached read and the fetch agree on keys: a cached read of kind
\* quote, daily series or overview with allow_stale=true returns an entry if
\* and only if an earlier fetch of the same kind and symbol completed a
\* successful upstream call, the payload is the body of the latest such fetch,
\* and for a symbol never fetched successfully the result is absent, not an
\* error.
C20_CachedReadAgreesWithFetch ==
    (last.op = "CachedRead" /\ last.allow_stale) =>
        LET d == <<last.kind, last.arg>>
        IN /\ (last.entry # None) <=> (d \in DOMAIN hist.fetched)
           /\ d \in DOMAIN hist.fetched =>
                  /\ last.result = Ok(hist.fetched[d])
                  /\ last.entry[1].payload = hist.fetched[d]
           /\ d \notin DOMAIN hist.fetched => last.result = Absent

C20_Witness ==
    /\ last.op = "CachedRead"
    /\ last.allow_stale
    /\ last.kind = "daily"
    /\ last.entry # None
    /\ last.entry[1].stale
    /\ last.entry[1].payload = QuoteBodyB
    /\ hist.fetched[<<"daily", last.arg>>] = QuoteBodyB
    /\ Cardinality(DOMAIN hist.fetched) = 2

\* This step handles the upstream response of a fetch.
ResponseStep == last'.op = "FetchRespond" /\ last' # last

\* C21: the client never retries: a fetch issues an upstream call only in its
\* first step, at most one, and the step that receives the response, failed
\* or not, issues no further call and ends the fetch with its result.
C21_NoRetry ==
    [][/\ last'.net => (StartStep /\ last'.op = "FetchStart" /\ ~last'.done)
       /\ ResponseStep =>
              /\ task[last'.t].pc = "network"
              /\ task'[last'.t] = IdleTask
              /\ ~last'.net
              /\ last'.done
              /\ last'.result = Classify(last'.outcome)
              /\ nfetch' = nfetch]_vars

C21_Witness ==
    /\ last.op = "FetchRespond"
    /\ last.result.kind = "UpstreamError"
    /\ last.done
    /\ ~last.net
    /\ nfetch = 1
    /\ \A t \in TaskIds : task[t].pc = "idle"

C25_StorageErrorPropagates ==
    last.fault =>
        /\ last.done
        /\ last.result = Raise("sqlite3.Error", NoMessage)
        /\ last.result.kind \notin TypedFailures \cup {"ok", "absent"}
        /\ ~last.net
        /\ last.op = "FetchStart" => task[last.t].pc = "idle"

C25_Witness ==
    /\ last.fault
    /\ last.op = "FetchRespond"
    /\ last.kind = "quote"
    /\ last.outcome.body = QuoteBodyA
    /\ last.result.kind = "sqlite3.Error"

\* C26: the rows of the table survive a restart of the process and the
\* in-memory entries do not: a restart leaves the table as it was and the
\* in-memory cache empty; after it, a fetch of a descriptor not set since
\* whose row is still fresh returns the stored payload without an upstream
\* call, and a fetch of a call kind without persistent TTL goes to the
\* upstream.
C26_RowsSurviveRestart ==
    [][/\ nrestarts' # nrestarts =>
              /\ db' = db
              /\ cache' = EmptyMap
       /\ LET vkey == VolatileKeyOf(last'.kind, last'.arg, apiKey)
              pkey == PersistentKeyOf(last'.kind, last'.arg, apiKey)
          IN (StartStep /\ nrestarts > 0 /\ vkey \notin DOMAIN hist.sets) =>
                 /\ FreshRow(db, pkey, now) =>
                        /\ last'.done
                        /\ last'.result = Ok(JsonLoads(db[pkey].payload))
                        /\ last'.result.payload = hist.saves[pkey].payload
                        /\ ~last'.net
                 /\ TtlOf(last'.kind) = None =>
                        /\ last'.net
                        /\ ~last'.done
                        /\ task'[last'.t].pc = "network"]_vars

C26_Witness ==
    /\ last.op = "FetchStart"
    /\ nrestarts = 1
    /\ hist.sets = EmptyMap
    /\ last.source = "persistent"
    /\ last.result = Ok(QuoteBodyB)
    /\ apiKey = "key2"
    /\ now = 600

\* Another fetch of the same in-memory key is waiting for its upstream call.
OtherInFlight(t, key) ==
    \E u \in TaskIds \ {t} : task[u].pc = "network" /\ task[u].cache_key = key

\* C23: two concurrent fetches of one descriptor that both miss both caches
\* each make their own upstream call: a fetch that misses both caches goes to
\* the upstream also while another fetch of the same descriptor is waiting
\* for its response; each returns the body of its own call and, on success,
\* writes the in-memory cache and (for a persisted call kind) the table,
\* whatever the other wrote before, so that after both the caches hold the
\* whole payload of the one that wrote last.
C23_ConcurrentFetchesLastWriterWins ==
    [][LET vkey == VolatileKeyOf(last'.kind, last'.arg, apiKey)
           pkey == PersistentKeyOf(last'.kind, last'.arg, apiKey)
           o == last'.outcome
       IN /\ (StartStep /\ OtherInFlight(last'.t, vkey)
                /\ ~Unexpired(cache, vkey, now) /\ ~FreshRow(db, pkey, now)) =>
                 /\ last'.net
                 /\ task'[last'.t].pc = "network"
                 /\ \A u \in TaskIds \ {last'.t} : task'[u] = task[u]
          /\ (ResponseStep /\ GoodResponse(o)) =>
                 /\ last'.result = Ok(o.body)
                 /\ cache'[vkey] = <<o.body, now>>
                 /\ TtlOf(last'.kind) # None =>
                        /\ JsonLoads(db'[pkey].payload) = o.body
                        /\ db'[pkey].fetched_at = now
                 /\ \A u \in TaskIds \ {last'.t} : task'[u] = task[u]]_vars

C23_Witness ==
    /\ last.op = "FetchRespond"
    /\ last.kind = "quote"
    /\ nfetch = 2
    /\ now = 0
    /\ \A t \in TaskIds : task[t].pc = "idle"
    /\ last.result = Ok(QuoteBodyA)
    /\ last.replaced = Some(<<QuoteBodyB, 0>>)
    /\ cache[last.cache_key] = <<QuoteBodyA, 0>>
    /\ JsonLoads(db[last.db_key].payload) = QuoteBodyA

\* C30: a fetch goes through its states in order and never back: the
\* in-memory lookup, then (on a miss) the lookup of the table, then (on a
\* miss) the upstream call, then the classification, then the writes (on
\* success) or the failure; a fetch changes position only from idle to
\* waiting in its first step and from waiting to idle in its second, each
\* step that ends a fetch ends it with one result; a fetch waits for no other
\* fetch (it can start while another waits, and its response can be taken
\* while another waits); and every fetch that went to the upstream ends,
\* given that its call comes back.
C30_FetchOrderAndTermination ==
    /\ [][/\ StartStep =>
                 /\ last'.cacheGet
                 /\ last'.dbGet => last'.source # "volatile"
                 /\ last'.net => (last'.dbGet /\ last'.source = "none")
                 /\ last'.done <=> ~last'.net
                 /\ last'.done <=> last'.result.kind = "ok"
                 /\ ~last'.cacheSet /\ ~last'.dbSave
          /\ ResponseStep =>
                 /\ ~last'.cacheGet /\ ~last'.dbGet /\ ~last'.net
                 /\ last'.done
                 /\ last'.result.kind # "none"
                 /\ last'.cacheSet <=> last'.result.kind = "ok"
                 /\ last'.dbSave => last'.cacheSet
          /\ \A t \in TaskIds :
                 /\ (task[t].pc = "idle" /\ task'[t].pc = "network") =>
                        (StartStep /\ last'.t = t)
                 /\ (task[t].pc = "network" /\ task'[t].pc # "network") =>
                        (ResponseStep /\ last'.t = t /\ task'[t] = IdleTask)
                 /\ task'[t].pc \in {"idle", "network"}]_vars
    /\ [](\A t \in TaskIds :
              task[t].pc = "network" =>
                  ENABLED (\E o \in CoreOutcomes : FetchRespond(t, o, FALSE)))
    /\ []((nfetch < MaxFetches /\ \E t \in TaskIds : task[t].pc = "idle") =>
              ENABLED (\E t \in TaskIds, req \in CoreRequests :
                           FetchStart(t, req, FALSE)))
    /\ \A t \in TaskIds : (task[t].pc = "network") ~> (task[t].pc = "idle")

C30_Witness ==
    /\ last.op = "FetchRespond"
    /\ last.t = "t2"
    /\ last.done
    /\ last.result.kind = "APIError"
    /\ task["t2"].pc = "idle"
    /\ task["t1"].pc = "network"

\* C24: a write of the table is atomic per key: whenever a get runs, between
\* the saves of its key, between the INSERT and the commit of one, or after,
\* the row it observes has the payload, fetched_at and ttl_seconds of one
\* single save, the latest committed one, never the payload of one save with
\* the fetched_at or ttl_seconds of another and never a part of a row.
C24_RowsWrittenWhole ==
    (last.op = "StoreGet" /\ last.entry # None) =>
        /\ last.db_key \in DOMAIN hist.saves
        /\ LET s == hist.saves[last.db_key]
           IN /\ last.entry[1].payload = s.payload
              /\ last.entry[1].fetched_at = s.at
              /\ last.entry[1].ttl_seconds = SavedTtl(s)
              /\ last.entry[1].stale = (now - s.at > SavedTtl(s))

C24_Witness ==
    /\ last.op = "StoreGet"
    /\ last.entry # None
    /\ task["t1"].pc = "commit"
    /\ task["t1"].pending[1].cache_key = last.db_key
    /\ task["t1"].pending[1].payload # last.entry[1].payload
    /\ task["t1"].pending[1].row.ttl_seconds # last.entry[1].ttl_seconds
    /\ task["t1"].pending[1].row.fetched_at # last.entry[1].fetched_at

\* C22: boundary translation. Whenever a route ends, its HTTP answer follows
\* the result of its call: InvalidSymbolError is answered 404, RateLimitError
\* 429, AuthError 401, UpstreamError 503 and a plain APIError 500, each with
\* the message of the failure as detail; a cached view that finds no row, or
\* a stale row without include_stale, is answered 404; a validation failure
\* keeps its 400 and a daily payload without the series keeps its 502.
C22_BoundaryTranslation ==
    last.done /\ last.op \in {"FetchStart", "FetchRespond", "CachedRead", "RouteReject"}
    => \A route \in DOMAIN last.http :
         LET a == last.http[route]
             r == last.result
         IN /\ r.kind = "InvalidSymbolError" => a.status = 404 /\ a.detail = r.msg
            /\ r.kind = "RateLimitError" => a.status = 429 /\ a.detail = r.msg
            /\ r.kind = "AuthError" => a.status = 401 /\ a.detail = r.msg
            /\ r.kind = "UpstreamError" => a.status = 503 /\ a.detail = r.msg
            /\ r.kind = "APIError" => a.status = 500 /\ a.detail = r.msg
            /\ /\ last.op = "CachedRead"
               /\ ~last.fault
               /\ \/ last.db_key \notin DOMAIN db
                  \/ /\ ~last.allow_stale
                     /\ now - db[last.db_key].fetched_at
                          > db[last.db_key].ttl_seconds
               => a.status = 404 /\ a.detail = Detail("No cached data found.")
            /\ last.op = "RouteReject"
               => a.status = 400
                  /\ a.detail = IF last.kind = "search"
                                THEN Detail("Invalid keywords.")
                                ELSE Detail("Invalid symbol format.")
            /\ /\ route \in WindowRoutes
               /\ r.kind = "ok"
               /\ r.payload.kind = "object"
               /\ ~HasField(r.payload, SeriesField)
               => a.status = 502
                  /\ a.detail = Detail("Upstream daily series data missing.")

\* A fetch that ended in UpstreamError was answered 503 with its message.
C22_Witness ==
    /\ last.op = "FetchRespond"
    /\ last.done
    /\ last.result.kind = "UpstreamError"
    /\ "fetch" \in DOMAIN last.http
    /\ last.http["fetch"].status = 503
    /\ last.http["fetch"].detail = last.result.msg

\* The date a YYYY-MM-DD text stands for, as the number YYYYMMDD.
DateNumber(text) ==
    (text[1] - 48) * 10000000 + (text[2] - 48) * 1000000
    + (text[3] - 48) * 100000 + (text[4] - 48) * 10000
    + (text[6] - 48) * 1000 + (text[7] - 48) * 100
    + (text[9] - 48) * 10 + (text[10] - 48)

\* C27: day-window selection. When a daily fetch returns a payload whose
\* series has N >= 1 dated entries, each last-K route (K = 7, 15, 30) answers
\* 200 with exactly min(N, K) entries; every entry is an entry of the series,
\* date and data point; the entries are in descending order of date; and
\* every entry of the series that was left out is older than all returned.
C27_DayWindow ==
    /\ last.done
    /\ last.kind = "daily"
    /\ last.op \in {"FetchStart", "FetchRespond"}
    /\ last.result.kind = "ok"
    /\ last.result.payload.kind = "object"
    /\ HasField(last.result.payload, SeriesField)
    /\ Field(last.result.payload, SeriesField).kind = "object"
    /\ Field(last.result.payload, SeriesField).items # {}
    => \A route \in WindowRoutes :
         LET K == DaysOf(route)
             S == Field(last.result.payload, SeriesField).items
             N == Cardinality(S)
             a == last.http[route]
             out == a.content.data
         IN /\ a.status = 200
            /\ a.content.days = K
            /\ Len(out) = IF N < K THEN N ELSE K
            /\ \A i \in DOMAIN out : out[i] \in S
            /\ \A i, j \in DOMAIN out :
                 i < j => DateNumber(out[i][1]) > DateNumber(out[j][1])
            /\ \A p \in S :
                 p \notin Range(out)
                 => \A i \in DOMAIN out : DateNumber(p[1]) < DateNumber(out[i][1])

\* A series of 8 days went through the windows: last-7 cut it to 7 entries,
\* last-15 returned all 8.
C27_Witness ==
    /\ last.op = "FetchRespond"
    /\ last.result.kind = "ok"
    /\ last.result.payload = DailyPayload(DailySeries(1 .. 8))
    /\ Len(last.http["last-7"].content.data) = 7
    /\ Len(last.http["last-15"].content.data) = 8
    /\ last.http["last-7"].content.data[1][1] = DateText(2023, 12, 23)
    /\ last.http["last-7"].content.data[7][1] = DateText(2023, 12, 17)

\* The descriptors of the calls: call kind and argument, that is function
\* and argument value (gold and silver share the function).
Descriptors == {<<r.kind, r.arg>> : r \in ValidRequests}

\* The body is shaped like an error: it has a marker, or it is empty.
ErrorShaped(body) ==
    \/ \E m \in {"Note", "Error Message", "Information"} : Contains(body, m)
    \/ Falsy(body)

\* C31: cache provenance. In every state the in-memory entry and the SQLite
\* row under the keys of a descriptor hold the body of the latest successful
\* upstream call made for that descriptor; two descriptors never have a key
\* in common (there are as many keys as descriptors); and the payload a fetch or a cached read returns is that body
\* of its own descriptor, never shaped like an error.
C31_CacheProvenance ==
    /\ \A d \in Descriptors :
         LET vk == VolatileKeyOf(d[1], d[2], apiKey)
             pk == PersistentKeyOf(d[1], d[2], apiKey)
         IN /\ vk \in DOMAIN cache
               => /\ d \in DOMAIN hist.fetched
                  /\ cache[vk][1] = hist.fetched[d]
                  /\ ~ErrorShaped(cache[vk][1])
            /\ pk \in DOMAIN db
               => /\ d \in DOMAIN hist.fetched
                  /\ JsonLoads(db[pk].payload) = hist.fetched[d]
                  /\ ~ErrorShaped(JsonLoads(db[pk].payload))
    /\ Cardinality({VolatileKeyOf(d[1], d[2], apiKey) : d \in Descriptors})
         = Cardinality(Descriptors)
    /\ Cardinality({PersistentKeyOf(d[1], d[2], apiKey) : d \in Descriptors})
         = Cardinality(Descriptors)
    /\ /\ last.done
       /\ last.op \in {"FetchStart", "FetchRespond", "CachedRead"}
       /\ last.result.kind = "ok"
       => /\ <<last.kind, last.arg>> \in DOMAIN hist.fetched
          /\ last.result.payload = hist.fetched[<<last.kind, last.arg>>]
          /\ ~ErrorShaped(last.result.payload)

\* The silver spot price was fetched after the gold one with another body,
\* and the in-memory cache holds each under its own key.
C31_Witness ==
    /\ last.op = "FetchRespond"
    /\ last.kind = "silver"
    /\ last.result.kind = "ok"
    /\ VolatileKeyOf("gold", "XAU", apiKey) \in DOMAIN cache
    /\ VolatileKeyOf("silver", "XAG", apiKey) \in DOMAIN cache
    /\ cache[VolatileKeyOf("silver", "XAG", apiKey)][1] = last.result.payload
    /\ cache[VolatileKeyOf("gold", "XAU", apiKey)][1] # last.result.payload

\* C32 as stated: the two writes of a successful response are all or
\* nothing; when the save of the row raises, the fetch ends in an error and
\* the in-memory cache does not hold the new body under the key of the fetch.
C32_PopulateAllOrNothing ==
    last.op = "FetchRespond" /\ last.fault
    => /\ last.result.kind # "ok"
       /\ ~(/\ last.cache_key \in DOMAIN cache
            /\ cache[last.cache_key][1] = Classify(last.outcome).payload)

\* C32 as the client behaves: the in-memory set comes first and stays. When
\* the save of the row raises, the fetch ends in the storage error and the
\* table is as it was, but the in-memory cache holds the new body, stamped
\* with the time of the response; a fetch of the same descriptor right after
\* it returns that body from the in-memory cache without an upstream call.
C32_VolatileSetSurvivesFailedSave ==
    [][/\ ResponseStep /\ last'.fault
          => /\ last'.result = Raise("sqlite3.Error", NoMessage)
             /\ db' = db
             /\ last'.cache_key \in DOMAIN cache'
             /\ cache'[last'.cache_key]
                  = <<Classify(last'.outcome).payload, now>>
       /\ /\ last.op = "FetchRespond" /\ last.fault
          /\ last'.op = "FetchStart"
          /\ last'.kind = last.kind /\ last'.arg = last.arg
          => /\ last'.done
             /\ last'.source = "volatile"
             /\ ~last'.net
             /\ last'.result = Ok(Classify(last.outcome).payload)]_vars

\* A quote was returned from the in-memory cache although the table has no
\* row for it: the response that set the entry failed to save the row.
C32_Witness ==
    /\ last.op = "FetchStart"
    /\ last.kind = "quote"
    /\ last.done
    /\ last.source = "volatile"
    /\ last.result.kind = "ok"
    /\ PersistentKeyOf("quote", last.arg, apiKey) \notin DOMAIN db

\* C33: cache coherence. In every state of a process whose saves all
\* succeeded, under every interleaving of concurrent fetches: when the
\* in-memory cache holds an unexpired entry and the table holds a row for the
\* same descriptor of a persisted call kind, the payload of the entry and the
\* payload of the row are equal.
C33_CachesCoherent ==
    \A d \in Descriptors :
        LET vk == VolatileKeyOf(d[1], d[2], apiKey)
            pk == PersistentKeyOf(d[1], d[2], apiKey)
        IN /\ TtlOf(d[1]) # None
           /\ Unexpired(cache, vk, now)
           /\ pk \in DOMAIN db
           => cache[vk][1] = JsonLoads(db[pk].payload)

\* The response of a quote fetch found the entry another fetch of the same
\* quote had set with a different body, and replaced entry and row alike.
C33_Witness ==
    /\ last.op = "FetchRespond"
    /\ last.kind = "quote"
    /\ last.result.kind = "ok"
    /\ last.replaced # None
    /\ last.replaced[1][1] # last.result.payload
    /\ Unexpired(cache, last.cache_key, now)
    /\ cache[last.cache_key][1] = last.result.payload
    /\ last.db_key \in DOMAIN db
    /\ JsonLoads(db[last.db_key].payload) = last.result.payload

\* The longest a payload of a call kind may have been held: the TTL of its
\* rows, or the TTL of the in-memory cache for a kind without rows.
FreshnessBound(kind) ==
    IF TtlOf(kind) = None THEN VolatileTtl ELSE TtlOf(kind)[1]

\* C34: freshness bound. After any sequence of fetches, expirations and
\* restarts, the payload a fetch returns is the body of an upstream response
\* received at most 120 s earlier for a call kind without persistent TTL, at
\* most 600 s earlier for a quote or a daily series and at most 86400 s
\* earlier for a company overview: it is the body just received, or the
\* value of the latest set of its in-memory key, or the payload of the
\* latest save of its row, and that set or save is no older than the bound.
C34_FreshnessBound ==
    /\ last.done
    /\ last.op \in {"FetchStart", "FetchRespond"}
    /\ last.result.kind = "ok"
    => /\ last.source \in {"network", "volatile", "persistent"}
       /\ last.source = "network"
          => /\ last.op = "FetchRespond"
             /\ last.result.payload = last.outcome.body
       /\ last.source = "volatile"
          => /\ last.cache_key \in DOMAIN hist.sets
             /\ hist.sets[last.cache_key].value = last.result.payload
             /\ now - hist.sets[last.cache_key].at <= VolatileTtl
             /\ now - hist.sets[last.cache_key].at <= FreshnessBound(last.kind)
       /\ last.source = "persistent"
          => /\ TtlOf(last.kind) # None
             /\ last.db_key \in DOMAIN hist.saves
             /\ hist.saves[last.db_key].payload = last.result.payload
             /\ now - hist.saves[last.db_key].at <= FreshnessBound(last.kind)

\* After a restart a quote was returned from its row exactly 600 s after the
\* response that saved it.
C34_Witness ==
    /\ last.op = "FetchStart"
    /\ last.kind = "quote"
    /\ last.done
    /\ last.source = "persistent"
    /\ nrestarts > 0
    /\ now - hist.saves[last.db_key].at = QuoteTtl

\* C35: a successful network fetch of a persisted call kind over a stale row
\* replaces the row: after the response the row of the key has the new body
\* as payload and the time of the response as fetched_at, no row was added,
\* and get(key, allow_stale=False) returns it with stale = False. The old
\* payload is gone with it: every fetch and every cached read of a persisted
\* kind, stale rows included, that returns a payload while the row exists
\* returns the payload of the row as it is now.
C35_StaleRowReplaced ==
    [][/\ LET k == PersistentKeyOf(last'.kind, last'.arg, apiKey)
          IN /\ ResponseStep
             /\ last'.result.kind = "ok"
             /\ TtlOf(last'.kind) # None
             /\ k \in DOMAIN db
             /\ now - db[k].fetched_at > db[k].ttl_seconds
             => /\ DOMAIN db' = DOMAIN db
                /\ db'[k].payload = JsonDumps(last'.outcome.body)
                /\ db'[k].fetched_at = now
                /\ SQLiteGet(db', k, FALSE, now')
                     = Some([payload |-> last'.outcome.body,
                             fetched_at |-> now,
                             ttl_seconds |-> TtlOf(last'.kind)[1],
                             stale |-> FALSE])
       /\ /\ last'.done
          /\ last'.op \in {"FetchStart", "FetchRespond", "CachedRead"}
          /\ last'.result.kind = "ok"
          /\ TtlOf(last'.kind) # None
          /\ PersistentKeyOf(last'.kind, last'.arg, apiKey) \in DOMAIN db'
          => last'.result.payload
               = JsonLoads(db'[PersistentKeyOf(last'.kind, last'.arg, apiKey)].payload)
      ]_vars

\* The response of a quote fetch found a stale row with another payload and
\* left the row with the new body, stamped now.
C35_Witness ==
    /\ last.op = "FetchRespond"
    /\ last.kind = "quote"
    /\ last.result.kind = "ok"
    /\ last.replacedRow # None
    /\ now - last.replacedRow[1].fetched_at > last.replacedRow[1].ttl_seconds
    /\ JsonLoads(last.replacedRow[1].payload) # last.result.payload
    /\ JsonLoads(db[last.db_key].payload) = last.result.payload
    /\ db[last.db_key].fetched_at = now
====
